---- MODULE Spec2Model ----
(***************************************************************************)
(* Dispatch core of fast_grpc: dependency resolution (core/dependencies),  *)
(* the middleware chain (middleware/manager, context, exceptions,          *)
(* background), the methods (handlers/methods) and the execution context   *)
(* (core/context), as a state machine of concurrent calls of one bound     *)
(* method.                                                                 *)
(***************************************************************************)
EXTENDS Integers, Sequences, FiniteSets, TLC

\* ------------------------------------------------------------------ bounds
NumCalls == 2

Calls == 1..NumCalls

None == "None"

\* ------------------------------------------------- exceptions of the model
\* A message text is a sequence of string pieces, so that a formatted text
\* (an f-string) is the concatenation of its pieces.
Msg(s) == <<s>>

\* An exception value: its exact type, its textual form str(exc) and, for a
\* GRPCException, the status and details it carries.
Exc(type, text, status, details) ==
    [type |-> type, text |-> text, status |-> status, details |-> details]

NoExc == Exc(None, <<>>, None, <<>>)

\* GRPCException.__init__: str(exc) is "<status name>: <details>".
GRPCException(status, details) ==
    Exc("GRPCException", <<status, ": ">> \o details, status, details)

\* ------------------------------------------------ the dependency producers
\* Shapes of a producer's result, Depends.resolve_dependencies lines 66-74.
Shapes == {"plain", "coroutine", "generator", "asyncgen"}

\* The producers declared by the application and, for each, the producers
\* its own parameters reference through a Depends marker, in signature order.
Producers == {"sync_gen", "async_gen", "rollback_gen", "g", "h", "k"}

NestedDeps ==
    [p \in Producers |->
        CASE p = "g" -> <<"async_gen", "k">>
          [] p = "k" -> <<"async_gen">>
          [] p = "h" -> <<"async_gen">>
          [] OTHER   -> <<>>]

ShapeOf ==
    [p \in Producers |->
        CASE p \in {"sync_gen", "rollback_gen"} -> "generator"
          [] p = "async_gen" -> "asyncgen"
          [] p = "k"         -> "coroutine"
          [] OTHER           -> "plain"]

\* The endpoints the controller can hold: the calling convention and the
\* producers named by the Depends markers of the endpoint's own parameters.
Endpoints ==
    {"say_hello", "layered", "guarded", "unary_stream", "broken_stream",
     "stream_unary"}

ModeOf ==
    [e \in Endpoints |->
        CASE e \in {"unary_stream", "broken_stream"} -> "unary_stream"
          [] e = "stream_unary"                       -> "stream_unary"
          [] OTHER                                    -> "unary_unary"]

ParamsOf ==
    [e \in Endpoints |->
        CASE e = "say_hello"    -> <<"sync_gen", "sync_gen">>
          [] e = "layered"      -> <<"g", "h">>
          [] e = "guarded"      -> <<"rollback_gen", "sync_gen">>
          [] e = "unary_stream" -> <<"sync_gen">>
          [] e = "broken_stream" -> <<"sync_gen">>
          [] e = "stream_unary"  -> <<>>]

\* What a failing producer raises (an authentication-style dependency).
ProducerExc == GRPCException("UNAUTHENTICATED", Msg("no token"))

\* ------------------------------------------------- exception kinds in use
\* grpc.RpcError and its subclasses (the transport's errors).
RpcErrorTypes == {"RpcError", "AioRpcError"}

\* A stage without the 'except grpc.RpcError' clause.
IsRpcError_never(type) == FALSE

IsRpcError(type) == type \in RpcErrorTypes

\* pydantic's ValidationError; details carries errors()[0] as
\* <<msg, loc, input>>.
ValidationError(msg, loc, input) ==
    Exc("ValidationError", <<"1 validation error: ", loc, " ", msg>>,
        None, <<msg, loc, input>>)

\* The request that fails the request schema (field name missing).
RequestError == ValidationError("Field required", "('name',)", "{}")

\* What the transport's abort raises to unwind the call (grpc.aio: abort
\* always raises; a second abort of the same call is refused).
AbortError == Exc("AbortError", Msg("Locally aborted."), None, <<>>)
AbortTwiceError == Exc("RuntimeError", Msg("Abort already called!"), None, <<>>)

\* asyncio's cancellation, a BaseException that is not an Exception.
CancelledError == Exc("CancelledError", <<>>, None, <<>>)

BaseExceptionTypes == {"CancelledError"}

\* 'async for' over an object without __aiter__.
NotAsyncIterableError ==
    Exc("TypeError", Msg("'async for' requires an object with __aiter__ method, got coroutine"),
        None, <<>>)

\* NotIterableContextMiddleware.__call__, line 47.
DescriptorError ==
    Exc("Exception", Msg("Not found descriptor in context middleware"), None, <<>>)

\* What the application's own code raises.
TestExc         == Exc("TestExc", Msg("Test exception"), None, <<>>)
DerivedExc      == Exc("DerivedExc", Msg("derived"), None, <<>>)
QuietExc        == Exc("QuietExc", Msg("quiet"), None, <<>>)
BadHandlerExc   == Exc("BadHandlerExc", Msg("bad handler"), None, <<>>)
ValueError      == Exc("ValueError", Msg("bad value"), None, <<>>)
UpstreamError   == Exc("AioRpcError", Msg("upstream unavailable"), None, <<>>)
NotFound        == GRPCException("NOT_FOUND", Msg("missing"))
HandlerError    == Exc("HandlerError", Msg("handler failed"), None, <<>>)

\* The exceptions an endpoint body can raise: the endpoint of
\* examples/exceptions_example.py raises application exception classes
\* (line 35); the endpoint with layered dependencies raises what the
\* libraries under it raise.
EndpointExcs ==
    [e \in Endpoints |->
        IF e = "say_hello"
        THEN {TestExc, DerivedExc, QuietExc, BadHandlerExc}
        ELSE {ValueError, UpstreamError, NotFound}]

\* ------------------------------------------------------ exception handlers
\* A handler: what its body does with (request, context, exc).
Handler(name, kind, code, details) ==
    [name |-> name, kind |-> kind, code |-> code, details |-> details]

\* exception_handlers.py, base_exception_handlers (lines 58-64): one handler
\* per classmethod of ExceptionsHandlers, keyed by the annotation of exc.
base_exception_handlers ==
    ("GRPCException" :> Handler("_grpc_exception_handler", "abort_exc", None, <<>>))
    @@ ("ValidationError" :> Handler("_pydantic_exception_handler", "abort_validation", "UNKNOWN", <<>>))

\* The handlers the application registers with add_exception_handler: one
\* that aborts with a status of its own (examples/exceptions_example.py),
\* one that returns without aborting, one that raises, and one registered
\* for a transport error kind.
user_exception_handlers ==
    ("TestExc" :> Handler("exc_handler", "abort", "INVALID_ARGUMENT", Msg("Some exception")))
    @@ ("QuietExc" :> Handler("quiet_handler", "return", None, <<>>))
    @@ ("BadHandlerExc" :> Handler("bad_handler", "raise", None, <<>>))
    @@ ("AioRpcError" :> Handler("upstream_handler", "abort", "UNAVAILABLE", Msg("upstream")))

\* Controller.add_exception_handler, line 319: self.exception_handlers |=
\* exceptions (in place, so the exception middlewares see it).
add_exception_handler(handlers, exceptions) == exceptions @@ handlers

\* ------------------------------------------------------------- middlewares
ContextMiddlewares   == {"NotIterableContextMiddleware", "IterableContextMiddleware"}
ExceptionMiddlewares == {"NotIterableExceptionMiddleware", "IterableExceptionMiddleware"}
SchedulerMiddlewares == {"NotIterableSchedulerMiddleware", "IterableSchedulerMiddleware"}
UserMiddlewares      == {"CustomMiddleware", "AuthMiddleware", "CustomIterableMiddleware"}

\* isinstance(middleware, BaseIterableMiddleware) / isinstance(middleware,
\* BaseMiddleware): the two base classes are unrelated, each middleware
\* class of the application derives from one of them.
IterableMiddlewares ==
    {"IterableContextMiddleware", "IterableExceptionMiddleware",
     "IterableSchedulerMiddleware", "CustomIterableMiddleware"}

is_BaseIterableMiddleware(m) == m \in IterableMiddlewares

is_BaseMiddleware(m) == m \notin IterableMiddlewares

\* Controller.__init__, lines 71-90: the built-in stages of both flavours.
Controller_middlewares(scheduler) ==
    <<"NotIterableContextMiddleware", "NotIterableExceptionMiddleware">>
    \o (IF scheduler THEN <<"NotIterableSchedulerMiddleware">> ELSE <<>>)

Controller_iterable_middlewares(scheduler) ==
    <<"IterableContextMiddleware", "IterableExceptionMiddleware">>
    \o (IF scheduler THEN <<"IterableSchedulerMiddleware">> ELSE <<>>)

\* Registration that puts the new middlewares in front of the list.
register_front(list, added) == added \o list

\* MiddlewareManager.register / register_iterable: extend the list.
register(list, added) == list \o added

\* BaseMethod.is_request_iterable, lines 105-113.
is_request_iterable(mode) == mode \in {"stream_unary", "stream_stream"}

\* BaseMethod.is_response_iterable, lines 115-123.
is_response_iterable(mode) == mode \in {"unary_stream", "stream_stream"}

RECURSIVE Reversed(_)

Reversed(list) ==
    IF list = <<>> THEN <<>> ELSE Append(Reversed(Tail(list)), Head(list))

\* A fold over the list in registration order, which makes the last
\* middleware of the list the outermost wrapper.
wraps_middleware_unreversed(mode, mws, iterable_mws) ==
    IF mode \in {"unary_stream", "stream_stream"}
    THEN Reversed(iterable_mws) ELSE Reversed(mws)

\* MiddlewareManager.wraps_middleware, lines 169-189: the list of the
\* method's flavour, folded from the right around the method, so that the
\* first middleware of the list is the outermost wrapper; the chain is given
\* outermost first.
wraps_middleware(mode, mws, iterable_mws) ==
    IF is_response_iterable(mode) THEN iterable_mws ELSE mws

\* ------------------------------------------------------------------- state
VARIABLES
    endpoint,             \* the endpoint bound as the served method
    middlewares,          \* MiddlewareManager._middlewares
    iterable_middlewares, \* MiddlewareManager._iterable_middlewares
    exception_handlers,   \* Controller.exception_handlers
    method_descriptor,    \* whether the chain was wrapped with a descriptor
    request_stream,       \* the raw items the client sends on a request stream
    methodCached,   \* Dependencies._cached_dependencies of the bound method
    dependsCached,  \* Depends._cached_dependencies of each endpoint parameter
    exhausted,      \* generator handles that have run to their end
    pc,             \* position of each call
    idx,            \* per call: the position in the chain
    invoked,        \* per call: the producer invocations, in order
    results,        \* per call: dependencies_results, by parameter position
    exc,            \* per call: the exception being handled
    raised,         \* per call: where the call's exceptions were raised
    stages,         \* per call: the stages entered, in order
    caught,         \* per call: the exceptions the exception-handling stage caught
    handlerCalls,   \* per call: the exception handlers invoked, with arguments
    aborts,         \* per call: the invocations of the transport's abort
    torn,           \* per call: the teardown steps the call has run
    pending,        \* per call: the items the running stream has yet to produce
    emitted,        \* per call: the outputs handed to the transport, in order
    asked,          \* per call: how many request items the endpoint has asked for
    pulledRaw,      \* per call: the raw items pulled from the transport, in order
    received,       \* per call: the validated items handed to the endpoint
    endpointRuns,   \* per call: how many times the endpoint body was started
    elapsed,        \* per call: context.elapsed_time as read at completion
    outcome,        \* per call: how the call ended
    invocation_metadata, \* per call: the metadata the client sent with it
    has_context,    \* per call: whether its ControllerContext has been built
    _metadata,      \* per call: ControllerContext._metadata
    pulls,          \* per call: the calls of grpc_context.invocation_metadata()
    metadata_reads, \* per call: what each read of context.metadata returned
    raw_results,    \* per call: the raw result handed to serialize_response
    declared_models,\* per call: the response model of its method, if any
    responses,      \* per call: what serialize_response gave
    controllers,    \* the Controller objects: lists, handlers and methods
    _services,      \* FastGRPC._services, as the controllers it holds
    served,         \* the controller whose method is bound to the server
    registered,     \* per controller: what add_middleware was passed before binding
    app_exceptions, \* the handlers passed to FastGRPC.add_exception_handler
    declared,       \* what the ControllerMeta class declared
    ops,            \* configuration calls made so far
    graph,          \* the producers each producer declares with Depends markers
    frames,         \* the resolve_dependencies calls in progress, outermost first
    resolved,       \* the producers held by the cache of the resolution
    resolution,     \* how the resolution ended, once it has
    methods,        \* Controller.methods of one controller, as the items of the dict
    add_method_calls\* the add_method calls made on it, with what each returned

config == <<endpoint, middlewares, iterable_middlewares, exception_handlers,
            method_descriptor, request_stream>>

deps == <<methodCached, dependsCached, exhausted, invoked, results>>

inbound == <<asked, pulledRaw, received>>

context == <<invocation_metadata, has_context, _metadata, pulls, metadata_reads>>

serializing == <<raw_results, declared_models, responses>>

resolving == <<graph, frames, resolved, resolution>>

registering == <<methods, add_method_calls>>

setup == <<controllers, _services, served, registered, app_exceptions,
           declared, ops>>

\* Everything a call in progress reads and writes outside its context.
calls == <<deps, inbound, pc, idx, exc, raised, stages, caught, handlerCalls,
           aborts, torn, pending, emitted, endpointRuns, elapsed, outcome>>

vars == <<endpoint, middlewares, iterable_middlewares, exception_handlers,
          method_descriptor, request_stream, methodCached, dependsCached, exhausted, pc, idx,
          invoked, results, exc, raised, stages, caught, handlerCalls,
          aborts, torn, pending, emitted, asked, pulledRaw, received,
          endpointRuns, elapsed, outcome, invocation_metadata, has_context,
          _metadata, pulls, metadata_reads, raw_results, declared_models,
          responses, controllers, _services, served, registered,
          app_exceptions, declared, ops,
          graph, frames, resolved, resolution,
          methods, add_method_calls>>

Params == ParamsOf[endpoint]

Mode == ModeOf[endpoint]

\* The chain bound for the served method, outermost stage first.
Chain == wraps_middleware(Mode, middlewares, iterable_middlewares)

\* ------------------------------------------------- Depends (dependencies.py)
\* The value a producer invocation resolves to: the producer and the position
\* of the invocation in the call's log, so that two invocations of one
\* producer give two different values.
Value(p, n) == [prod |-> p, inv |-> n]

\* A generator object created by invoking a generator-shaped producer.
Handle(c, p, n) == [owner |-> c, prod |-> p, inv |-> n]

\* The resolution state threaded through resolve_dependencies: the cache
\* argument, the invocation log of the call, the generator objects appended
\* to self._cached_dependencies, the last resolved value and the exception
\* raised, if any.
ResolveState(cache, log, gens, val, err) ==
    [cache |-> cache, log |-> log, gens |-> gens, val |-> val, exc |-> err]

RECURSIVE resolve_dependencies(_, _, _, _)
RECURSIVE resolve_parameters(_, _, _, _, _, _)

\* A lookup that never finds the producer.
in_cache_never(dep_func, cache) == FALSE

\* 'if dep_func in cache', line 55.
in_cache(dep_func, cache) == dep_func \in DOMAIN cache

\* A producer called with the defaults of its parameters, none resolved.
resolve_parameters_skipped(c, func, i, kwargs, bad, st) ==
    [st |-> st, kwargs |-> kwargs]

\* The loop over sig.parameters, lines 52-62: a cached producer is not
\* resolved again, any other is resolved recursively and then cached.
resolve_parameters(c, func, i, kwargs, bad, st) ==
    IF i > Len(NestedDeps[func]) \/ st.exc # NoExc
    THEN [st |-> st, kwargs |-> kwargs]
    ELSE LET dep_func == NestedDeps[func][i]
         IN IF in_cache(dep_func, st.cache)
            THEN resolve_parameters(c, func, i + 1,
                     Append(kwargs, st.cache[dep_func]), bad, st)
            ELSE LET r == resolve_dependencies(c, dep_func, bad, st)
                     cached == IF r.exc # NoExc THEN r
                               ELSE [r EXCEPT !.cache = (dep_func :> r.val) @@ r.cache]
                 IN resolve_parameters(c, func, i + 1,
                        Append(kwargs, r.val), bad, cached)

\* Depends.resolve_dependencies, lines 46-74: nested dependencies first, then
\* the call func(**kwargs); a generator or asynchronous generator is appended
\* to self._cached_dependencies before its first step runs.
resolve_dependencies(c, func, bad, st) ==
    LET inner  == resolve_parameters(c, func, 1, <<>>, bad, st)
        s      == inner.st
        log    == Append(s.log, [prod |-> func, args |-> inner.kwargs])
        n      == Len(log)
        isGen  == ShapeOf[func] \in {"generator", "asyncgen"}
        gens   == IF isGen THEN Append(s.gens, Handle(c, func, n)) ELSE s.gens
    IN IF s.exc # NoExc THEN s
       ELSE IF func = bad
            THEN ResolveState(s.cache, log, gens, None, ProducerExc)
            ELSE ResolveState(s.cache, log, gens, Value(func, n), NoExc)

\* Depends.__call__, lines 76-84: resolve self.dependency with a fresh cache
\* (cache=None) and hand back the value and self._cached_dependencies.
Depends_call(c, func, bad, log) ==
    resolve_dependencies(c, func, bad,
        ResolveState(<<>>, log, <<>>, None, NoExc))

\* A raw message of a request stream is given as <<field, value>>.
\* The end of the request stream.
EndOfStream == <<>>

\* The request streams a client sends: two items that fit the request
\* model, sent out of alphabetical order, an item that does not fit in
\* second place, and the empty stream.
RequestStreams ==
    {<<<<"name", "b">>, <<"name", "a">>>>,
     <<<<"name", "a">>, <<"age", "1">>>>, <<>>}

\* ------------------------------------------- controllers (controller.py)
\* The Controller objects of a program: the primary service of the
\* application (FastGRPC.__init__, app.py lines 53-58), the one a
\* ControllerMeta class creates (meta.py line 52) and the one add_service
\* creates for it (app.py lines 284-288).
ControllerIds == {"primary", "declared", "added"}

\* An empty dict of exception handlers.
NoHandlers == [kind \in {} |-> None]

\* Controller.__init__, lines 63-91: no methods, the base exception
\* handlers, the built-in stages of both flavours.
Controller_init(scheduler) ==
    [scheduler            |-> scheduler,
     methods              |-> {},
     exception_handlers   |-> base_exception_handlers,
     middlewares          |-> Controller_middlewares(scheduler),
     iterable_middlewares |-> Controller_iterable_middlewares(scheduler)]

\* Controller.add_middleware, lines 297-301: the middlewares of the list
\* that are BaseIterableMiddleware instances, in the order of the list.
iterable_only(list) == SelectSeq(list, is_BaseIterableMiddleware)

\* A selection that keeps the whole list.
simple_unfiltered(list) == list

\* Controller.add_middleware, lines 302-306: the BaseMiddleware instances
\* of the list, in the order of the list.
simple_only(list) == SelectSeq(list, is_BaseMiddleware)

\* Controller.add_middleware, lines 307-308: each selection extends the
\* manager's list of its flavour.
with_middleware(controller, list) ==
    [controller EXCEPT
        !.iterable_middlewares = register(@, iterable_only(list)),
        !.middlewares          = register(@, simple_only(list))]

\* Controller.add_exception_handler, line 319.
with_exception_handlers(controller, exceptions) ==
    [controller EXCEPT
        !.exception_handlers = add_exception_handler(@, exceptions)]

\* Controller.add_method, lines 133-134.
with_method(controller, name) ==
    [controller EXCEPT !.methods = @ \cup {name}]

\* ControllerMeta.__new__, lines 52-68: a Controller without scheduler,
\* then add_middleware and add_exception_handler with what the class
\* declared, then one add_method per static method.
ControllerMeta_new(middlewares_, exceptions_, name) ==
    with_method(
        with_exception_handlers(
            with_middleware(Controller_init(FALSE), middlewares_),
            exceptions_),
        name)

\* -------------------------------------------------------------------- Init
\* The controller as constructed and configured before serving: built-in
\* stages with or without a scheduler, one user interceptor of each flavour,
\* the base and the application's exception handlers, one endpoint bound.
Configured ==
    /\ endpoint \in Endpoints
    /\ \E scheduler \in BOOLEAN :
         /\ middlewares =
              register(Controller_middlewares(scheduler), <<"CustomMiddleware">>)
         /\ iterable_middlewares =
              register(Controller_iterable_middlewares(scheduler),
                       <<"CustomIterableMiddleware">>)
    /\ exception_handlers =
         add_exception_handler(base_exception_handlers, user_exception_handlers)
    /\ method_descriptor \in BOOLEAN
    /\ request_stream \in IF is_request_iterable(ModeOf[endpoint])
                          THEN RequestStreams ELSE {<<>>}

\* No call has arrived yet.
NoCalls ==
    /\ methodCached = <<>>
    /\ dependsCached = [i \in 1..Len(ParamsOf[endpoint]) |-> <<>>]
    /\ exhausted = {}
    /\ pc = [c \in Calls |-> "idle"]
    /\ idx = [c \in Calls |-> 0]
    /\ invoked = [c \in Calls |-> <<>>]
    /\ results = [c \in Calls |-> <<>>]
    /\ exc = [c \in Calls |-> NoExc]
    /\ raised = [c \in Calls |-> <<>>]
    /\ stages = [c \in Calls |-> <<>>]
    /\ caught = [c \in Calls |-> <<>>]
    /\ handlerCalls = [c \in Calls |-> <<>>]
    /\ aborts = [c \in Calls |-> <<>>]
    /\ torn = [c \in Calls |-> <<>>]
    /\ pending = [c \in Calls |-> <<>>]
    /\ emitted = [c \in Calls |-> <<>>]
    /\ asked = [c \in Calls |-> 0]
    /\ pulledRaw = [c \in Calls |-> <<>>]
    /\ received = [c \in Calls |-> <<>>]
    /\ endpointRuns = [c \in Calls |-> 0]
    /\ elapsed = [c \in Calls |-> <<>>]
    /\ outcome = [c \in Calls |-> "none"]

\* No ControllerContext has been built yet.
NoContexts ==
    /\ has_context = [c \in Calls |-> FALSE]
    /\ _metadata = [c \in Calls |-> {}]
    /\ pulls = [c \in Calls |-> 0]
    /\ metadata_reads = [c \in Calls |-> <<>>]

\* The application whose primary service is the configured controller, bound
\* to the server: the lists and the handlers the bound chain was built
\* from are the controller's.
PrimaryBound ==
    /\ controllers =
         [id \in ControllerIds |->
            IF id = "primary"
            THEN [scheduler |-> \E i \in DOMAIN middlewares :
                                   middlewares[i] \in SchedulerMiddlewares,
                  methods |-> {endpoint},
                  exception_handlers |-> exception_handlers,
                  middlewares |-> middlewares,
                  iterable_middlewares |-> iterable_middlewares]
            ELSE Controller_init(FALSE)]
    /\ _services = {"primary"}
    /\ served = "primary"
    /\ registered =
         [id \in ControllerIds |->
            IF id = "primary"
            THEN <<"CustomMiddleware", "CustomIterableMiddleware">> ELSE <<>>]
    /\ app_exceptions = <<user_exception_handlers>>
    /\ declared = [middlewares |-> <<>>, exceptions |-> NoHandlers]
    /\ ops = 0

\* Nothing has been handed to serialize_response outside a call.
NotResolving ==
    /\ graph = <<>>
    /\ frames = <<>>
    /\ resolved = {}
    /\ resolution = None

NotRegistering ==
    /\ methods = {}
    /\ add_method_calls = <<>>

NoResults ==
    /\ raw_results = [c \in Calls |-> <<>>]
    /\ declared_models = [c \in Calls |-> <<>>]
    /\ responses = [c \in Calls |-> <<>>]

Init ==
    /\ Configured
    /\ PrimaryBound
    /\ NoCalls
    /\ NoContexts
    /\ NotRegistering
    /\ NotResolving
    /\ invocation_metadata = [c \in Calls |-> <<>>]
    /\ NoResults

\* ------------------------------------------------------ exception routing
Max(S) == CHOOSE x \in S : \A y \in S : y <= x

\* The position of the innermost exception-handling stage whose try block
\* encloses position i of the chain, 0 if there is none.
Catcher(i) ==
    LET js == {j \in 1..Len(Chain) : j < i /\ Chain[j] \in ExceptionMiddlewares}
    IN IF js = {} THEN 0 ELSE Max(js)

\* How a call that an exception leaves uncaught has ended.
EndedBy(e) ==
    IF e = CancelledError THEN "cancelled"
    ELSE IF e \in {AbortError, AbortTwiceError} THEN "aborted"
    ELSE "raw_exception"

\* An exception e raised at position from of the chain unwinds outward: the
\* 'except Exception' clause of the innermost enclosing exception-handling
\* stage catches it (exceptions.py, lines 56-61 and 61-67), anything else
\* lets it through to the transport.
Propagate(c, e, from) ==
    LET j == IF e.type \in BaseExceptionTypes THEN 0 ELSE Catcher(from)
    IN /\ exc' = [exc EXCEPT ![c] = e]
       /\ IF j > 0
          THEN /\ pc' = [pc EXCEPT ![c] = "caught"]
               /\ idx' = [idx EXCEPT ![c] = j]
               /\ UNCHANGED outcome
          ELSE /\ pc' = [pc EXCEPT ![c] = "done"]
               /\ idx' = [idx EXCEPT ![c] = 0]
               /\ outcome' = [outcome EXCEPT ![c] = EndedBy(e)]

\* ControllerContext.abort, lines 89-100: delegates to the transport's abort,
\* which records the status and raises to unwind the call.
abort(c, code, details, from) ==
    /\ aborts' = [aborts EXCEPT ![c] = Append(@, [code |-> code, details |-> details])]
    /\ Propagate(c, IF aborts[c] = <<>> THEN AbortError ELSE AbortTwiceError, from)

\* --------------------------------------------------------------- the calls
\* The generator objects of a list that belong to a producer that raised in
\* its first step: such a generator is finished.
Broken(gens, r) ==
    {h \in {gens[j] : j \in 1..Len(gens)} : r.exc # NoExc /\ h.prod = r.log[Len(r.log)].prod}

\* Everything get_dependencies_results reads and writes: the two lists of
\* generator objects, the finished generators, the call's invocation log,
\* dependencies_results and the exception that ended the loop, if any.
DepsState(dc, mc, ex, log, res, err) ==
    [dependsCached |-> dc, methodCached |-> mc, exhausted |-> ex,
     log |-> log, results |-> res, exc |-> err]

RECURSIVE get_dependencies_results(_, _, _, _)

\* Dependencies.get_dependencies_results, lines 136-156: for each endpoint
\* parameter in turn, 'await dependency()' (the Depends marker of that
\* parameter, with its own list), then extend self._cached_dependencies with
\* the whole list of the marker. A producer that raises ends the loop.
get_dependencies_results(c, i, bad, st) ==
    IF i > Len(Params) \/ st.exc # NoExc THEN st
    ELSE LET r   == Depends_call(c, Params[i], bad, st.log)
             own == st.dependsCached[i] \o r.gens
             dc  == [st.dependsCached EXCEPT ![i] = own]
             ex  == st.exhausted \cup Broken(r.gens, r)
         IN IF r.exc # NoExc
            THEN DepsState(dc, st.methodCached, ex, r.log, st.results, r.exc)
            ELSE get_dependencies_results(c, i + 1, bad,
                     DepsState(dc, st.methodCached \o own, ex, r.log,
                               Append(st.results, r.val), NoExc))

\* The transport invokes the bound entry point (manager.py lines 221-223 and
\* 241-242), which calls the outermost wrapper; wrapped.dependencies is set
\* on that wrapper (line 186), so it starts with
\* 'kwargs |= await self.dependencies.get_dependencies_results()' (lines
\* 71-72 and 109-110). A producer that raises ends the call there: nothing
\* encloses the outermost wrapper.
Dispatch(c) ==
    /\ served # None
    /\ pc[c] = "idle"
    /\ \A b \in Calls : b < c => pc[b] # "idle"
    /\ \E bad \in Producers \cup {None} :
         LET r == get_dependencies_results(c, 1, bad,
                      DepsState(dependsCached, methodCached, exhausted,
                                invoked[c], <<>>, NoExc))
         IN /\ invoked' = [invoked EXCEPT ![c] = r.log]
            /\ dependsCached' = r.dependsCached
            /\ methodCached' = r.methodCached
            /\ exhausted' = r.exhausted
            /\ results' = [results EXCEPT ![c] = r.results]
            /\ IF r.exc # NoExc
               THEN /\ raised' = [raised EXCEPT ![c] = Append(@, "dependency")]
                    /\ Propagate(c, r.exc, 0)
               ELSE /\ idx' = [idx EXCEPT ![c] = 1]
                    /\ pc' = [pc EXCEPT ![c] = "chain"]
                    /\ UNCHANGED <<exc, raised, outcome>>
    /\ UNCHANGED <<config, setup, context, serializing, resolving, registering, inbound, endpointRuns, elapsed,
                   stages, caught, handlerCalls, aborts, torn,
                   pending, emitted>>

AtStage(c, kinds) ==
    /\ pc[c] = "chain"
    /\ idx[c] <= Len(Chain)
    /\ Chain[idx[c]] \in kinds

Enter(c) == stages' = [stages EXCEPT ![c] = Append(@, Chain[idx[c]])]

Inward(c) ==
    /\ idx' = [idx EXCEPT ![c] = @ + 1]
    /\ UNCHANGED <<pc, exc, outcome>>

\* NotIterableContextMiddleware.__call__ (lines 44-47) and
\* IterableContextMiddleware.__call__ (lines 44-47): with a descriptor the
\* ControllerContext is built and the call goes inward; without one the
\* single-result stage raises and the sequence-producing stage just ends.
ContextMiddleware(c) ==
    /\ AtStage(c, ContextMiddlewares)
    /\ Enter(c)
    /\ IF method_descriptor
       THEN Inward(c) /\ UNCHANGED raised
       ELSE IF Chain[idx[c]] = "NotIterableContextMiddleware"
            THEN /\ raised' = [raised EXCEPT ![c] = Append(@, "context")]
                 /\ Propagate(c, DescriptorError, idx[c])
            ELSE /\ pc' = [pc EXCEPT ![c] = "done"]
                 /\ outcome' = [outcome EXCEPT ![c] = "stream_end"]
                 /\ UNCHANGED <<idx, exc, raised>>
    /\ has_context' = [has_context EXCEPT ![c] = @ \/ method_descriptor]
    /\ UNCHANGED <<config, invocation_metadata, _metadata, pulls,
                   metadata_reads, serializing, resolving, registering, setup, inbound, endpointRuns, elapsed,
                   deps, caught, handlerCalls, aborts, torn, pending,
                   emitted>>

\* The try block of the exception-handling stage is entered
\* (not_iterable/exceptions.py line 57, iterable/exceptions.py lines 62-63).
ExceptionMiddleware(c) ==
    /\ AtStage(c, ExceptionMiddlewares)
    /\ Enter(c)
    /\ Inward(c)
    /\ UNCHANGED <<config, setup, context, serializing, resolving, registering, inbound, endpointRuns, elapsed,
                   deps, raised, caught, handlerCalls, aborts, torn,
                   pending, emitted>>

\* The scheduler-attachment stage (background.py, lines 51-53).
SchedulerMiddleware(c) ==
    /\ AtStage(c, SchedulerMiddlewares)
    /\ Enter(c)
    /\ Inward(c)
    /\ UNCHANGED <<config, setup, context, serializing, resolving, registering, inbound, endpointRuns, elapsed,
                   deps, raised, caught, handlerCalls, aborts, torn,
                   pending, emitted>>

\* The wire messages a user interceptor of the sequence-producing flavour
\* yields when it answers by itself.
InterceptorItems == <<[wire |-> "cached"]>>

\* A user interceptor (BaseMiddleware / BaseIterableMiddleware subclasses):
\* it delegates inward, or answers by itself without delegating (a result,
\* or a sequence of its own), or raises.
UserMiddleware(c) ==
    /\ AtStage(c, UserMiddlewares)
    /\ Enter(c)
    /\ \E does \in {"delegate", "answer", "raise"} :
         CASE does = "delegate" ->
                Inward(c) /\ UNCHANGED <<raised, pending, emitted>>
           [] does = "answer" ->
                IF is_response_iterable(Mode)
                THEN /\ pc' = [pc EXCEPT ![c] = "streaming"]
                     /\ pending' = [pending EXCEPT ![c] = InterceptorItems]
                     /\ UNCHANGED <<idx, exc, raised, outcome, emitted>>
                ELSE /\ pc' = [pc EXCEPT ![c] = "done"]
                     /\ outcome' = [outcome EXCEPT ![c] = "response"]
                     /\ emitted' = [emitted EXCEPT ![c] = Append(@, InterceptorItems[1])]
                     /\ UNCHANGED <<idx, exc, raised, pending>>
           [] does = "raise" ->
                /\ raised' = [raised EXCEPT ![c] = Append(@, "interceptor")]
                /\ Propagate(c, ValueError, idx[c])
                /\ UNCHANGED <<pending, emitted>>
    /\ UNCHANGED <<config, setup, context, serializing, resolving, registering, inbound, endpointRuns, elapsed,
                   deps, caught, handlerCalls, aborts, torn>>

\* What calling the endpoint kept by BaseMethod gives: self.endpoint is the
\* 'async def wrapper' of get_close_dependencies_wrapped_endpoint
\* (methods.py lines 79-82, dependencies.py lines 114-126), whatever the
\* shape of the user's endpoint.
wrapped_endpoint_call == "coroutine"

\* 'async for' needs an asynchronous iterable.
async_for_accepts(obj) == obj = "asyncgen"

\* The items the endpoint of a sequence-producing method is programmed to
\* produce (examples/dependency_example.py lines 117-119).
EndpointItems == <<"SayHello: X 0", "SayHello: X 1", "SayHello: X 2">>

\* What the body of each sequence-producing endpoint is programmed to do:
\* the items it yields, and the exception it raises after them, if any
\* (broken_stream yields two items and then raises).
ItemsOf ==
    [e \in Endpoints |->
        CASE e = "unary_stream"  -> EndpointItems
          [] e = "broken_stream" -> <<"SayHello: X 0", "SayHello: X 1">>
          [] OTHER               -> <<>>]

FailureOf ==
    [e \in Endpoints |-> IF e = "broken_stream" THEN ValueError ELSE NoExc]

\* A message of the wire output type (context.output_type) whose field
\* 'message' holds the text.
Message(text) == [wire |-> text]

\* isinstance(response, context.output_type).
is_output_type(response) == "wire" \in DOMAIN response

\* A result that is not a wire message: an instance of a pydantic model, a
\* dict or a plain string, with the one field it sets and its value.
Result(kind, field, value) == [kind |-> kind, field |-> field, value |-> value]

\* TestResponse(message=...), the response model of the examples
\* (examples/controller_meta_example.py lines 11-12).
TestResponse(message) == Result("model", "message", message)

\* The response model the methods declare through their return annotation
\* (BaseMethod.__init__, lines 95-99).
response_model == "TestResponse"

\* self.response_model.model_validate(response) raises (line 171).
Unserializable == [error |-> "ValidationError"]

raises(response) == "error" \in DOMAIN response

\* Whether model_validate accepts the result: a TestResponse, or a dict
\* with the field 'message'.
fits_response_model(response) ==
    response.kind \in {"model", "dict"} /\ response.field = "message"

\* dict_to_message (helpers.py line 145): ParseDict into the output type,
\* unknown fields ignored, fields not given left at their default.
dict_to_message(data) ==
    Message(IF data.field = "message" THEN data.value ELSE "")

\* A policy that tries the generic mapping before the declared schema.
serialize_response_dict_first(response, schema) ==
    IF is_output_type(response) THEN response
    ELSE IF response.kind = "dict" THEN dict_to_message(response)
    ELSE IF schema # None
         THEN IF fits_response_model(response)
              THEN Message(response.value) ELSE Unserializable
    ELSE response

\* BaseMethod.serialize_response, lines 167-178: a result of the output
\* type is returned as it is; otherwise, with a response model, the result
\* is validated (which may raise) and its JSON parsed into the output type;
\* otherwise a dict is parsed into the output type; anything else is
\* returned as it is.
serialize_response(response, schema) ==
    IF is_output_type(response) THEN response
    ELSE IF schema # None
         THEN IF fits_response_model(response)
              THEN Message(response.value) ELSE Unserializable
    ELSE IF response.kind = "dict" THEN dict_to_message(response)
    ELSE response

\* UnaryUnaryMethod.__call__ (lines 207-209) and UnaryStreamMethod.__call__
\* (lines 250-253): solve_params validates a single request against the
\* request model (a request stream is only wrapped, lines 143-149), then
\* the endpoint is awaited, or iterated with 'async for'.
MethodCall(c) ==
    /\ pc[c] = "chain"
    /\ idx[c] = Len(Chain) + 1
    /\ stages' = [stages EXCEPT ![c] = Append(@, "Method")]
    /\ \E valid \in BOOLEAN :
         IF ~valid /\ ~is_request_iterable(Mode)
         THEN /\ raised' = [raised EXCEPT ![c] = Append(@, "validation")]
              /\ Propagate(c, RequestError, idx[c])
              /\ UNCHANGED <<pending, endpointRuns>>
         ELSE IF ~is_response_iterable(Mode)
              THEN /\ pc' = [pc EXCEPT ![c] = "endpoint"]
                   /\ endpointRuns' = [endpointRuns EXCEPT ![c] = @ + 1]
                   /\ UNCHANGED <<idx, exc, raised, outcome, pending>>
              ELSE IF async_for_accepts(wrapped_endpoint_call)
                   THEN /\ pc' = [pc EXCEPT ![c] = "streaming"]
                        /\ pending' = [pending EXCEPT ![c] = ItemsOf[endpoint]]
                        /\ endpointRuns' = [endpointRuns EXCEPT ![c] = @ + 1]
                        /\ UNCHANGED <<idx, exc, raised, outcome>>
                   ELSE /\ raised' = [raised EXCEPT ![c] = Append(@, "method")]
                        /\ Propagate(c, NotAsyncIterableError, idx[c])
                        /\ UNCHANGED <<pending, endpointRuns>>
    /\ UNCHANGED <<config, setup, context, serializing, resolving, registering, inbound, elapsed, deps, caught, handlerCalls,
                   aborts, torn, emitted>>

\* One turn of the 'async for response in ...: yield response' loops
\* (methods.py lines 253-254, manager.py lines 73-74 and 222-223, the
\* iterable stages): the consumer asks for the next item, the producer
\* makes it and it is handed outward; after the last item the stream ends.
StreamNext(c) ==
    /\ pc[c] = "streaming"
    /\ IF pending[c] # <<>>
       THEN /\ emitted' = [emitted EXCEPT ![c] =
                 Append(@, IF idx[c] = Len(Chain) + 1
                           THEN serialize_response(TestResponse(Head(pending[c])), response_model)
                           ELSE Head(pending[c]))]
            /\ pending' = [pending EXCEPT ![c] = Tail(@)]
            /\ UNCHANGED <<pc, idx, exc, raised, outcome>>
       ELSE IF idx[c] = Len(Chain) + 1 /\ FailureOf[endpoint] # NoExc
            THEN /\ raised' = [raised EXCEPT ![c] = Append(@, "endpoint")]
                 /\ Propagate(c, FailureOf[endpoint], idx[c])
                 /\ UNCHANGED <<pending, emitted>>
            ELSE /\ pc' = [pc EXCEPT ![c] = "done"]
                 /\ outcome' = [outcome EXCEPT ![c] = "stream_end"]
                 /\ UNCHANGED <<idx, exc, raised, pending, emitted>>
    /\ UNCHANGED <<config, setup, context, serializing, resolving, registering, inbound, endpointRuns, elapsed,
                   deps, stages, caught, handlerCalls, aborts, torn>>

\* What the second step of a generator object raises: the code after the
\* yield runs to the end of the generator (StopIteration, or
\* StopAsyncIteration for an asynchronous generator), except in
\* rollback_gen, where it raises an error of its own.
StopIteration      == Exc("StopIteration", <<>>, None, <<>>)
StopAsyncIteration == Exc("StopAsyncIteration", <<>>, None, <<>>)
TeardownError      == Exc("TeardownError", Msg("rollback failed"), None, <<>>)

teardown(producer) ==
    CASE producer = "rollback_gen"          -> TeardownError
      [] ShapeOf[producer] = "asyncgen"     -> StopAsyncIteration
      [] OTHER                              -> StopIteration

\* A cleanup loop that swallows whatever a teardown step raises.
except_in_cleanup_any(type) == TRUE

\* 'except (StopAsyncIteration, StopIteration): pass', lines 123-124.
except_in_cleanup(type) == type \in {"StopAsyncIteration", "StopIteration"}

RECURSIVE close_dependencies(_, _, _, _)

\* The cleanup loop of the wrapper, dependencies.py lines 117-124, over
\* self._cached_dependencies from position i: next / anext runs the teardown
\* step of a generator that is not finished, and the exhaustion signal is
\* swallowed. Gives the finished generators and the teardown steps run, each
\* with the position its owner's call was at.
close_dependencies(c, i, ex, ran) ==
    IF i > Len(methodCached) THEN [exhausted |-> ex, ran |-> ran, exc |-> NoExc]
    ELSE LET h == methodCached[i]
             step == [handle |-> h,
                      ownerAt |-> IF h.owner = c THEN "returned"
                                  ELSE pc[h.owner]]
         IN IF h \in ex
            THEN close_dependencies(c, i + 1, ex, ran)
            ELSE IF except_in_cleanup(teardown(h.prod).type)
                 THEN close_dependencies(c, i + 1, ex \cup {h}, Append(ran, step))
                 ELSE [exhausted |-> ex \cup {h}, ran |-> Append(ran, step),
                       exc |-> teardown(h.prod)]

\* The endpoint body is running: suspended at an await of its own, or
\* past the end of its request stream.
InBody(c) == pc[c] \in {"endpoint", "drained"}

\* The endpoint body is suspended: at an await of its own or waiting for
\* the next item of its request stream.
Suspended(c) == pc[c] \in {"endpoint", "receiving", "drained"}

\* What the endpoint body returns (examples/exceptions_example.py line 36).
EndpointResult == "Hello world, X"

\* The result of an endpoint that does not fit the response model
\* (serialize_response, line 171: model_validate raises).
ResponseError ==
    ValidationError("Field required", "('message',)", "{'text': ...}")

\* Readings of the clock, in milliseconds: when the ControllerContext is
\* built (context.py line 32) and how much later elapsed_time is read.
StartTimes == {0, 1700}

Durations == {999, 2500}

\* int(x) for x in seconds, given in milliseconds: truncation toward zero.
int_seconds(ms) == IF ms >= 0 THEN ms \div 1000 ELSE -((-ms) \div 1000)

\* The difference taken the wrong way round.
elapsed_time_swapped(start, now) == int_seconds(start - now) * 1000

\* ControllerContext.elapsed_time, line 43:
\* int(time.time() - self._start_time) * 1000.
elapsed_time(start, now) == int_seconds(now - start) * 1000

RECURSIVE JoinNames(_)

\* f" {message.name}" appended for each item, in order.
JoinNames(items) ==
    IF items = <<>> THEN ""
    ELSE " " \o Head(items).name \o JoinNames(Tail(items))

\* A reply built from the last item only.
stream_unary_last_only(items) ==
    "SayHello:" \o (IF items = <<>> THEN "" ELSE JoinNames(<<items[Len(items)]>>))

\* The stream_unary endpoint (examples/controller_meta_example.py lines
\* 26-30): the message starts as "SayHello:" and grows by " <name>" for
\* every item the loop over the request receives; it is returned when the
\* loop has ended.
stream_unary(items) == "SayHello:" \o JoinNames(items)

\* What the endpoint body returns for the call.
ResultOf(c) ==
    IF is_request_iterable(Mode) THEN stream_unary(received[c])
    ELSE EndpointResult

\* The endpoint body, suspended at an await, returns: the wrapper runs its
\* cleanup loop and returns the result (dependencies.py lines 116-125),
\* which the method serializes, reads elapsed_time for its log line and
\* hands back through the stages (methods.py lines 209-215). A result that
\* does not fit the response model makes serialize_response raise.
EndpointReturn(c) ==
    /\ InBody(c)
    /\ is_request_iterable(Mode) => pc[c] = "drained"
    /\ LET r == close_dependencies(c, 1, exhausted, torn[c])
       IN /\ exhausted' = r.exhausted
          /\ torn' = [torn EXCEPT ![c] = r.ran]
    /\ \E conforming \in BOOLEAN, start \in StartTimes, dt \in Durations :
         LET result == IF conforming THEN TestResponse(ResultOf(c))
                       ELSE Result("dict", "text", ResultOf(c))
             response == serialize_response(result, response_model)
             r == close_dependencies(c, 1, exhausted, torn[c])
         IN
         IF r.exc # NoExc
         THEN /\ raised' = [raised EXCEPT ![c] = Append(@, "teardown")]
              /\ Propagate(c, r.exc, Len(Chain) + 1)
              /\ UNCHANGED <<emitted, elapsed>>
         ELSE IF ~raises(response)
         THEN /\ emitted' = [emitted EXCEPT ![c] = Append(@, response)]
              /\ elapsed' = [elapsed EXCEPT ![c] =
                   <<elapsed_time(start, start + dt)>>]
              /\ pc' = [pc EXCEPT ![c] = "done"]
              /\ outcome' = [outcome EXCEPT ![c] = "response"]
              /\ UNCHANGED <<idx, exc, raised>>
         ELSE /\ raised' = [raised EXCEPT ![c] = Append(@, "serialize")]
              /\ Propagate(c, ResponseError, Len(Chain) + 1)
              /\ UNCHANGED <<emitted, elapsed>>
    /\ UNCHANGED <<config, setup, context, serializing, resolving, registering, inbound, endpointRuns, methodCached,
                   dependsCached, invoked, results, stages, caught,
                   handlerCalls, aborts, pending>>

\* The endpoint body raises: 'result = await endpoint(...)' (line 116) is
\* not inside a try, so the wrapper is left at once. (The stream_unary
\* endpoint, examples/dependency_example.py lines 110-114, only reads its
\* request and returns.)
EndpointRaise(c) ==
    /\ InBody(c)
    /\ ~is_request_iterable(Mode)
    /\ \E e \in EndpointExcs[endpoint] :
         /\ raised' = [raised EXCEPT ![c] = Append(@, "endpoint")]
         /\ Propagate(c, e, Len(Chain) + 1)
    /\ UNCHANGED <<config, setup, context, serializing, resolving, registering, inbound, endpointRuns, elapsed,
                   deps, stages, caught, handlerCalls, aborts, torn,
                   pending, emitted>>

\* The endpoint body calls context.abort itself.
EndpointAbort(c) ==
    /\ InBody(c)
    /\ ~is_request_iterable(Mode)
    /\ raised' = [raised EXCEPT ![c] = Append(@, "endpoint")]
    /\ abort(c, "PERMISSION_DENIED", Msg("denied"), Len(Chain) + 1)
    /\ UNCHANGED <<config, setup, context, serializing, resolving, registering, inbound, endpointRuns, elapsed,
                   deps, stages, caught, handlerCalls, torn, pending,
                   emitted>>

\* The transport cancels the call (or its deadline passes) while the
\* endpoint is suspended: CancelledError is raised at the await.
Cancel(c) ==
    /\ Suspended(c)
    /\ raised' = [raised EXCEPT ![c] = Append(@, "cancel")]
    /\ Propagate(c, CancelledError, Len(Chain) + 1)
    /\ UNCHANGED <<config, setup, context, serializing, resolving, registering, inbound, endpointRuns, elapsed,
                   deps, stages, caught, handlerCalls, aborts, torn,
                   pending, emitted>>

\* A request model that accepts every dict.
fits_request_model_any(item) == TRUE

\* ------------------------------------------------------ the request stream
\* message_to_dict (helpers.py line 117) and what the request model
\* requires of the dict: the field name.
fits_request_model(item) == item[1] = "name"

\* A validation that loses the payload of the item.
model_validate_default(item) == [name |-> ""]

\* self.request_model.model_validate(message_to_dict(item)), line 147: the
\* request model built from the item.
model_validate(item) == [name |-> item[2]]

\* The failure of model_validate on an item.
ItemError == ValidationError("Field required", "('name',)", "{'age': '1'}")

\* The endpoint body asks for the next item of its request: the
\* 'async for message in request' of the endpoint resumes
\* validate_async_iterator_request, which awaits the next raw item of the
\* transport (lines 145-146).
RequestNext(c) ==
    /\ pc[c] = "endpoint"
    /\ is_request_iterable(Mode)
    /\ asked' = [asked EXCEPT ![c] = @ + 1]
    /\ pc' = [pc EXCEPT ![c] = "receiving"]
    /\ UNCHANGED <<config, setup, context, serializing, resolving, registering, deps, idx, exc, raised, stages, caught,
                   handlerCalls, aborts, torn, pending, emitted, pulledRaw,
                   received, endpointRuns, elapsed, outcome>>

\* The transport delivers the next raw item, or the end of the stream: the
\* item is validated and yielded to the endpoint (line 147); an item that
\* does not fit makes model_validate raise inside the endpoint's loop; at
\* the end of the stream the loop of the endpoint ends.
Receive(c) ==
    /\ pc[c] = "receiving"
    /\ LET item == IF Len(pulledRaw[c]) < Len(request_stream)
                   THEN request_stream[Len(pulledRaw[c]) + 1]
                   ELSE EndOfStream
       IN
         IF item = EndOfStream
         THEN /\ pc' = [pc EXCEPT ![c] = "drained"]
              /\ UNCHANGED <<pulledRaw, received, idx, exc, raised, outcome>>
         ELSE /\ pulledRaw' = [pulledRaw EXCEPT ![c] = Append(@, item)]
              /\ IF fits_request_model(item)
                 THEN /\ received' = [received EXCEPT ![c] =
                           Append(@, model_validate(item))]
                      /\ pc' = [pc EXCEPT ![c] = "endpoint"]
                      /\ UNCHANGED <<idx, exc, raised, outcome>>
                 ELSE /\ raised' = [raised EXCEPT ![c] = Append(@, "validation")]
                      /\ Propagate(c, ItemError, Len(Chain) + 1)
                      /\ UNCHANGED received
    /\ UNCHANGED <<config, setup, context, serializing, resolving, registering, deps, stages, caught, handlerCalls, aborts, torn,
                   pending, emitted, asked, endpointRuns, elapsed>>

\* ------------------------------------------- the exception-handling stage
NoHandler == Handler(None, None, None, <<>>)

\* The direct base class of an exception type of the application:
\* DerivedExc is declared as a subclass of TestExc, the others derive from
\* Exception.
BaseType(type) == IF type = "DerivedExc" THEN "TestExc" ELSE "Exception"

\* A lookup that walks up to the base class when the exact type has no
\* handler.
get_handler_by_base(handlers, e) ==
    IF e.type \in DOMAIN handlers THEN handlers[e.type]
    ELSE IF BaseType(e.type) \in DOMAIN handlers THEN handlers[BaseType(e.type)]
    ELSE [name |-> None, kind |-> None, code |-> None, details |-> <<>>]

\* A lookup keyed by the exception instead of its type never finds a handler.
get_handler_by_instance(handlers, e) == NoHandler

\* 'self._exception_handlers.get(type(exc))' (not_iterable line 66, iterable
\* line 72): the handler registered for the exact type, if any.
get_handler(handlers, e) ==
    IF e.type \in DOMAIN handlers THEN handlers[e.type] ELSE NoHandler

\* A generic abort that reports the type of the exception, not its text.
fallback_abort_type_name(e) == [code |-> "UNKNOWN", details |-> Msg(e.type)]

\* The status and message of the generic abort (not_iterable lines 60 and
\* 68, iterable lines 66 and 74).
fallback_abort(e) == [code |-> "UNKNOWN", details |-> e.text]

\* What a handler that aborts passes to context.abort:
\* _grpc_exception_handler (exception_handlers.py line 34) the status and
\* details of the exception, _pydantic_exception_handler (lines 53-55)
\* UNKNOWN and a text made of the first error, a handler of the application
\* the status and message it was written with.
handler_abort(h, e) ==
    CASE h.kind = "abort_exc" -> [code |-> e.status, details |-> e.details]
      [] h.kind = "abort_validation" ->
            [code |-> "UNKNOWN",
             details |-> <<e.details[1], ". Location: ", e.details[2],
                           ". Input: ", e.details[3]>>]
      [] OTHER -> [code |-> h.code, details |-> h.details]

AbortingKinds == {"abort_exc", "abort_validation", "abort"}

\* A generic abort written as the else branch of the handler lookup.
fallback_in_else(h) == h = NoHandler

\* Whether the generic abort of line 68 (iterable: line 74) is reached once
\* the handler h, if any, has returned: the statement follows the 'if' and
\* is not part of it.
fallback_after_handler(h) == TRUE

\* The except clauses of the exception-handling stage (not_iterable lines
\* 58-68, iterable lines 64-74): a grpc.RpcError is aborted as UNKNOWN at
\* once; for any other Exception the handler registered for the exact type
\* is looked up; without one the call is aborted as UNKNOWN with str(exc).
ExceptionCatch(c) ==
    /\ pc[c] = "caught"
    /\ caught' = [caught EXCEPT ![c] = Append(@, exc[c])]
    /\ LET e == exc[c]
           generic == fallback_abort(e)
       IN IF IsRpcError(e.type)
          THEN abort(c, generic.code, generic.details, idx[c])
          ELSE IF get_handler(exception_handlers, e) # NoHandler
               THEN /\ pc' = [pc EXCEPT ![c] = "handler"]
                    /\ UNCHANGED <<idx, exc, outcome, aborts>>
               ELSE abort(c, generic.code, generic.details, idx[c])
    /\ UNCHANGED <<config, setup, context, serializing, resolving, registering, inbound, endpointRuns, elapsed,
                   deps, raised, stages, handlerCalls, torn, pending,
                   emitted>>

\* 'await exception_handler(request, context, exc)' and the generic abort
\* after it (not_iterable lines 66-68, iterable lines 72-74): a handler
\* that aborts leaves the stage by the exception abort raises, one that
\* returns is followed by the generic abort, one that raises leaves the
\* stage by its own exception.
HandlerRun(c) ==
    /\ pc[c] = "handler"
    /\ LET e == caught[c][Len(caught[c])]
           h == get_handler(exception_handlers, e)
           chosen == handler_abort(h, e)
           generic == fallback_abort(e)
       IN /\ handlerCalls' = [handlerCalls EXCEPT ![c] =
                Append(@, [name |-> h.name, request |-> c, context |-> c, exc |-> e])]
          /\ IF h.kind \in AbortingKinds
             THEN abort(c, chosen.code, chosen.details, idx[c]) /\ UNCHANGED raised
             ELSE IF h.kind = "raise"
                  THEN /\ raised' = [raised EXCEPT ![c] = Append(@, "handler")]
                       /\ Propagate(c, HandlerError, idx[c])
                       /\ UNCHANGED aborts
                  ELSE IF fallback_after_handler(h)
                       THEN abort(c, generic.code, generic.details, idx[c])
                            /\ UNCHANGED raised
                       ELSE /\ pc' = [pc EXCEPT ![c] = "done"]
                            /\ outcome' = [outcome EXCEPT ![c] =
                                   IF is_response_iterable(Mode)
                                   THEN "stream_end" ELSE "response"]
                            /\ UNCHANGED <<idx, exc, raised, aborts>>
    /\ UNCHANGED <<config, setup, context, serializing, resolving, registering, inbound, endpointRuns, elapsed,
                   deps, stages, caught, torn, pending, emitted>>

\* ------------------------------------------ the context object (context.py)
\* How many times the code of a call reads context.metadata.
MaxReads == 2

\* What grpc_context.invocation_metadata() returns for a call: the pairs
\* the client sent, none for a call without metadata.
InvocationMetadata ==
    {<<>>, <<<<"authorization", "token">>>>,
     <<<<"authorization", "token">>, <<"trace", "1">>>>}

\* dict(pairs): the pairs as a mapping, given as the set of its items.
dict(pairs) == {pairs[i] : i \in 1..Len(pairs)}

\* ControllerContext.__init__, lines 27-33: self._metadata = {}.
ControllerContext_init(c) ==
    /\ ~has_context[c]
    /\ has_context' = [has_context EXCEPT ![c] = TRUE]
    /\ _metadata' = [_metadata EXCEPT ![c] = {}]
    /\ UNCHANGED <<invocation_metadata, pulls, metadata_reads>>
    /\ UNCHANGED <<config, setup, calls, serializing, resolving, registering>>

\* The property ControllerContext.metadata, lines 55-57: 'if not
\* self._metadata' the transport is asked and the result kept; the kept
\* mapping is returned.
metadata(c) ==
    /\ has_context[c]
    /\ Len(metadata_reads[c]) < MaxReads
    /\ LET loaded == IF _metadata[c] = {}
                     THEN dict(invocation_metadata[c]) ELSE _metadata[c]
       IN /\ pulls' = [pulls EXCEPT ![c] = IF _metadata[c] = {} THEN @ + 1 ELSE @]
          /\ _metadata' = [_metadata EXCEPT ![c] = loaded]
          /\ metadata_reads' = [metadata_reads EXCEPT ![c] = Append(@, loaded)]
    /\ UNCHANGED <<invocation_metadata, has_context>>
    /\ UNCHANGED <<config, setup, calls, serializing, resolving, registering>>

\* The life of the context objects alone: each call's context is built and
\* its metadata is read by the code of the call.
ContextInit ==
    /\ Configured
    /\ PrimaryBound
    /\ endpoint = "say_hello"
    /\ method_descriptor
    /\ NoCalls
    /\ NoContexts
    /\ NotRegistering
    /\ NotResolving
    /\ invocation_metadata \in [Calls -> InvocationMetadata]
    /\ NoResults

ContextNext ==
    \E c \in Calls :
        \/ ControllerContext_init(c)
        \/ metadata(c)

ContextSpec == ContextInit /\ [][ContextNext]_vars

\* ------------------------------------------- serialize_response by itself
\* The raw results an endpoint can hand back: a message of the output type,
\* a model instance, a dict or a string, setting the field of the response
\* schema or another one.
RawResults ==
    {Message("hi"), Message("")}
    \cup {Result(k, f, "hi") : k \in {"model", "dict", "str"},
                               f \in {"message", "text"}}

\* The response model of a method: none, or TestResponse.
ResponseModels == {None, response_model}

\* 'response = self.serialize_response(result, context)' (methods.py line
\* 210) for a result of the call's method.
Serialize(c) ==
    /\ responses[c] = <<>>
    /\ responses' = [responses EXCEPT ![c] =
           <<serialize_response(raw_results[c][1], declared_models[c][1])>>]
    /\ UNCHANGED <<config, setup, calls, context, resolving, registering, raw_results, declared_models>>

SerializeInit ==
    /\ Configured
    /\ PrimaryBound
    /\ endpoint = "say_hello"
    /\ method_descriptor
    /\ NoCalls
    /\ NoContexts
    /\ NotRegistering
    /\ NotResolving
    /\ invocation_metadata = [c \in Calls |-> <<>>]
    /\ raw_results \in [Calls -> {<<r>> : r \in RawResults}]
    /\ declared_models \in [Calls -> {<<m>> : m \in ResponseModels}]
    /\ responses = [c \in Calls |-> <<>>]

SerializeNext == \E c \in Calls : Serialize(c)

SerializeSpec == SerializeInit /\ [][SerializeNext]_vars

\* ------------------------------------ configuration (app.py, meta.py)
\* How many configuration calls the program makes before it binds.
MaxConfigCalls == 2

\* The lists a program passes to add_middleware.
MiddlewareLists ==
    {<<"AuthMiddleware">>, <<"CustomIterableMiddleware", "CustomMiddleware">>}

\* What a ControllerMeta class declares with middlewares= and exceptions=.
DeclaredMiddlewares == {<<>>, <<"CustomMiddleware", "CustomIterableMiddleware">>}

DeclaredExceptions ==
    {NoHandlers,
     "TestExc" :> Handler("exc_handler", "abort", "INVALID_ARGUMENT", Msg("Some exception"))}

\* The endpoints the ControllerMeta class declares, one per program.
DeclaredEndpoints == {"say_hello", "unary_stream", "stream_unary"}

Configuring == served = None /\ ops < MaxConfigCalls

\* Controller.add_middleware called on the controller of the class
\* (controller.py lines 297-308).
Controller_add_middleware(list) ==
    /\ Configuring
    /\ controllers' = [controllers EXCEPT !["declared"] = with_middleware(@, list)]
    /\ registered' = [registered EXCEPT !["declared"] = @ \o list]
    /\ ops' = ops + 1
    /\ UNCHANGED <<_services, served, app_exceptions, declared>>
    /\ UNCHANGED <<config, calls, context, serializing, resolving, registering>>

\* FastGRPC.add_middleware, app.py lines 330-331: add_middleware on every
\* service the application holds at that moment.
FastGRPC_add_middleware(list) ==
    /\ Configuring
    /\ controllers' = [id \in ControllerIds |->
           IF id \in _services THEN with_middleware(controllers[id], list)
           ELSE controllers[id]]
    /\ registered' = [id \in ControllerIds |->
           IF id \in _services THEN registered[id] \o list ELSE registered[id]]
    /\ ops' = ops + 1
    /\ UNCHANGED <<_services, served, app_exceptions, declared>>
    /\ UNCHANGED <<config, calls, context, serializing, resolving, registering>>

\* FastGRPC.add_exception_handler, app.py lines 318-319: add_exception_handler
\* on every service the application holds at that moment.
FastGRPC_add_exception_handler(exceptions) ==
    /\ Configuring
    /\ controllers' = [id \in ControllerIds |->
           IF id \in _services
           THEN with_exception_handlers(controllers[id], exceptions)
           ELSE controllers[id]]
    /\ app_exceptions' = Append(app_exceptions, exceptions)
    /\ ops' = ops + 1
    /\ UNCHANGED <<_services, served, registered, declared>>
    /\ UNCHANGED <<config, calls, context, serializing, resolving, registering>>

\* FastGRPC.add_service, app.py lines 280-289, with the controller of the
\* class: a path that is new to _services gets a new Controller with the
\* application's scheduler, and the methods of the given controller are
\* copied into the controller held under the path.
FastGRPC_add_service ==
    /\ Configuring
    /\ _services' = _services \cup {"added"}
    /\ controllers' = [controllers EXCEPT !["added"] =
           [(IF "added" \in _services THEN @
             ELSE Controller_init(controllers["primary"].scheduler))
            EXCEPT !.methods = @ \cup controllers["declared"].methods]]
    /\ registered' = [registered EXCEPT !["added"] =
           IF "added" \in _services THEN @ ELSE <<>>]
    /\ ops' = ops + 1
    /\ UNCHANGED <<served, app_exceptions, declared>>
    /\ UNCHANGED <<config, calls, context, serializing, resolving, registering>>

\* Controller.add_to_server of controller k, controller.py lines 334-352:
\* make_grpc_service_from_methods wraps each method with the controller's
\* middleware manager (lines 384-387), whose exception stages hold the
\* controller's handlers.
add_to_server(k) ==
    /\ served = None
    /\ controllers[k].methods # {}
    /\ served' = k
    /\ middlewares' = controllers[k].middlewares
    /\ iterable_middlewares' = controllers[k].iterable_middlewares
    /\ exception_handlers' = controllers[k].exception_handlers
    /\ UNCHANGED <<endpoint, method_descriptor, request_stream>>
    /\ UNCHANGED <<controllers, _services, registered, app_exceptions,
                   declared, ops>>
    /\ UNCHANGED <<calls, context, serializing, resolving, registering>>

\* A bound entry point that reads the manager's list at every call.
bound_chain_live(built, current) == current

\* wraps_middleware, manager.py lines 176-189: the wrappers are built by the
\* loop over the list at the time of the call, and the entry point bound to
\* the server keeps them: the list as it is later is not read again.
bound_chain(built, current) == built

\* Controller.add_middleware on the served controller after it was bound
\* (directly, or for every service by FastGRPC.add_middleware): the lists of
\* its middleware manager are extended (controller.py lines 307-308).
add_middleware_after_binding(list) ==
    /\ served # None
    /\ ops < MaxConfigCalls
    /\ controllers' = [controllers EXCEPT ![served] = with_middleware(@, list)]
    /\ middlewares' = bound_chain(middlewares, controllers'[served].middlewares)
    /\ iterable_middlewares' =
          bound_chain(iterable_middlewares, controllers'[served].iterable_middlewares)
    /\ ops' = ops + 1
    /\ UNCHANGED <<endpoint, exception_handlers, method_descriptor, request_stream>>
    /\ UNCHANGED <<_services, served, registered, app_exceptions, declared>>
    /\ UNCHANGED <<calls, context, serializing, resolving, registering>>

\* The program binds the controller of the class itself.
Controller_add_to_server ==
    /\ served = None
    /\ add_to_server("declared")

\* FastGRPC.run_async, app.py lines 263-264: add_to_server on every service
\* the application holds; the methods of the class are served by the
\* controller add_service made for them.
FastGRPC_run_async ==
    /\ "added" \in _services
    /\ add_to_server("added")

\* A program that declares a controller class, creates an application,
\* configures both and binds; then a call arrives.
ConfigInit ==
    /\ endpoint \in DeclaredEndpoints
    /\ method_descriptor = TRUE
    /\ request_stream \in IF is_request_iterable(ModeOf[endpoint])
                          THEN RequestStreams ELSE {<<>>}
    /\ middlewares = <<>>
    /\ iterable_middlewares = <<>>
    /\ exception_handlers = NoHandlers
    /\ \E scheduler \in BOOLEAN, middlewares_ \in DeclaredMiddlewares,
          exceptions_ \in DeclaredExceptions :
         /\ controllers =
              [id \in ControllerIds |->
                 IF id = "declared"
                 THEN ControllerMeta_new(middlewares_, exceptions_, endpoint)
                 ELSE Controller_init(scheduler)]
         /\ registered =
              [id \in ControllerIds |->
                 IF id = "declared" THEN middlewares_ ELSE <<>>]
         /\ declared = [middlewares |-> middlewares_, exceptions |-> exceptions_]
    /\ _services = {"primary"}
    /\ served = None
    /\ app_exceptions = <<>>
    /\ ops = 0
    /\ NoCalls
    /\ NoContexts
    /\ NotRegistering
    /\ NotResolving
    /\ invocation_metadata = [c \in Calls |-> <<>>]
    /\ NoResults

ConfigNext ==
    \/ \E list \in MiddlewareLists : Controller_add_middleware(list)
    \/ \E list \in MiddlewareLists : FastGRPC_add_middleware(list)
    \/ FastGRPC_add_exception_handler(user_exception_handlers)
    \/ FastGRPC_add_service
    \/ Controller_add_to_server
    \/ FastGRPC_run_async
    \/ \E list \in MiddlewareLists : add_middleware_after_binding(list)
    \/ Dispatch(1)
    \/ ContextMiddleware(1)
    \/ ExceptionMiddleware(1)
    \/ SchedulerMiddleware(1)
    \/ UserMiddleware(1)
    \/ MethodCall(1)
    \/ StreamNext(1)
    \/ RequestNext(1)
    \/ Receive(1)
    \/ EndpointReturn(1)
    \/ EndpointRaise(1)
    \/ EndpointAbort(1)
    \/ Cancel(1)
    \/ ExceptionCatch(1)
    \/ HandlerRun(1)

ConfigSpec == ConfigInit /\ [][ConfigNext]_vars

\* ----------------------------- resolution of a declared dependency graph
\* The deepest nesting of calls the interpreter allows before it raises
\* RecursionError.
RecursionLimit == 4

\* The producers of a program, and what a producer may declare: up to two
\* parameters with a Depends marker, each for any producer of the program
\* (a marker's dependency attribute can be set to any callable).
DeclaredProducers == {"a", "b", "c"}

Declarations ==
    {<<>>} \cup {<<p>> : p \in DeclaredProducers}
           \cup {<<p, q>> : p, q \in DeclaredProducers}

\* Dependencies._get_endpoint_dependencies, lines 169-174, collects the
\* markers of the endpoint and looks no further; Depends.__call__, line 84,
\* starts the resolution of the marker's producer with cache=None.
ResolveInit ==
    /\ Configured
    /\ PrimaryBound
    /\ endpoint = "say_hello"
    /\ method_descriptor
    /\ NoCalls
    /\ NoContexts
    /\ NotRegistering
    /\ invocation_metadata = [c \in Calls |-> <<>>]
    /\ NoResults
    /\ graph \in [DeclaredProducers -> Declarations]
    /\ frames = <<[func |-> "a", param |-> 1]>>
    /\ resolved = {}
    /\ resolution = None

\* The resolve_dependencies call that is running, and the producer of the
\* parameter its loop has reached.
Running == frames[Len(frames)]

AtParameter ==
    /\ frames # <<>>
    /\ Running.param <= Len(graph[Running.func])

dep_func == graph[Running.func][Running.param]

NextParameter(fs) ==
    [fs EXCEPT ![Len(fs)] = [@ EXCEPT !.param = @ + 1]]

\* Lines 55-56 and 60: the producer of the parameter is in the cache.
resolve_cached ==
    /\ AtParameter
    /\ dep_func \in resolved
    /\ frames' = NextParameter(frames)
    /\ UNCHANGED <<graph, resolved, resolution>>
    /\ UNCHANGED <<config, setup, calls, context, serializing, registering>>

\* Line 58: the producer of the parameter is not in the cache, so
\* resolve_dependencies is awaited for it, whatever calls are in progress.
resolve_nested ==
    /\ AtParameter
    /\ dep_func \notin resolved
    /\ Len(frames) < RecursionLimit
    /\ frames' = Append(frames, [func |-> dep_func, param |-> 1])
    /\ UNCHANGED <<graph, resolved, resolution>>
    /\ UNCHANGED <<config, setup, calls, context, serializing, registering>>

\* Line 58 when the nesting has reached the interpreter's limit: the call
\* raises RecursionError, which no frame catches.
RecursionError ==
    /\ AtParameter
    /\ dep_func \notin resolved
    /\ Len(frames) = RecursionLimit
    /\ frames' = <<>>
    /\ resolution' = "RecursionError"
    /\ UNCHANGED <<graph, resolved>>
    /\ UNCHANGED <<config, setup, calls, context, serializing, registering>>

\* Lines 64-74 and 59: all parameters are resolved, func(**kwargs) is
\* called and its value returned; the caller stores it in the cache.
call_func ==
    /\ frames # <<>>
    /\ Running.param > Len(graph[Running.func])
    /\ IF Len(frames) = 1
       THEN /\ frames' = <<>>
            /\ resolution' = "value"
            /\ UNCHANGED resolved
       ELSE /\ frames' = NextParameter(SubSeq(frames, 1, Len(frames) - 1))
            /\ resolved' = resolved \cup {Running.func}
            /\ UNCHANGED resolution
    /\ UNCHANGED graph
    /\ UNCHANGED <<config, setup, calls, context, serializing, registering>>

ResolveNext ==
    \/ resolve_cached
    \/ resolve_nested
    \/ RecursionError
    \/ call_func

ResolveSpec == ResolveInit /\ [][ResolveNext]_vars

\* ------------------------------------- registration of methods (add_method)
\* How many add_method calls the program makes on the controller.
MaxRegistrations == 3

\* The endpoints a program registers and the names it may pass with them
\* (None: no name given).
RegisteredEndpoints == {"say_hello", "unary_stream", "stream_unary"}

MethodNames == {None, "SayHello", "Greet"}

\* to_pascal_case (schema/utils.py line 127) of the endpoint's __name__.
to_pascal_case(snake_str) ==
    CASE snake_str = "say_hello"    -> "SayHello"
      [] snake_str = "unary_stream" -> "UnaryStream"
      [] snake_str = "stream_unary" -> "StreamUnary"

\* BaseMethod.__init__, methods.py line 78: a new method object, named by
\* the name given or else after the endpoint; n tells the objects apart.
Method(endpoint_, name, n) ==
    [name |-> IF name # None THEN name ELSE to_pascal_case(endpoint_),
     endpoint |-> endpoint_, object |-> n]

\* An assignment that keeps the item already held under the key.
dict_setitem_keep(items, key, value) ==
    IF \E i \in items : i.key = key THEN items
    ELSE items \cup {[key |-> key, value |-> value]}

\* d[key] = value on a dict given as the set of its items.
dict_setitem(items, key, value) ==
    {i \in items : i.key # key} \cup {[key |-> key, value |-> value]}

\* Controller.add_method, lines 133-135.
add_method(endpoint_, name) ==
    /\ Len(add_method_calls) < MaxRegistrations
    /\ LET method == Method(endpoint_, name, Len(add_method_calls) + 1)
       IN /\ methods' = dict_setitem(methods, method.name, method)
          /\ add_method_calls' = Append(add_method_calls,
                 [endpoint |-> endpoint_, name |-> name, returned |-> method])
    /\ UNCHANGED <<config, setup, calls, context, serializing, resolving>>

RegisterInit ==
    /\ Configured
    /\ PrimaryBound
    /\ endpoint = "say_hello"
    /\ method_descriptor
    /\ NoCalls
    /\ NoContexts
    /\ NotResolving
    /\ invocation_metadata = [c \in Calls |-> <<>>]
    /\ NoResults
    /\ methods = {}
    /\ add_method_calls = <<>>

RegisterNext ==
    \E endpoint_ \in RegisteredEndpoints, name \in MethodNames :
        add_method(endpoint_, name)

RegisterSpec == RegisterInit /\ [][RegisterNext]_vars

\* ---------------------------------------------------------- specification
Next ==
    \E c \in Calls :
        \/ Dispatch(c)
        \/ ContextMiddleware(c)
        \/ ExceptionMiddleware(c)
        \/ SchedulerMiddleware(c)
        \/ UserMiddleware(c)
        \/ MethodCall(c)
        \/ StreamNext(c)
        \/ RequestNext(c)
        \/ Receive(c)
        \/ EndpointReturn(c)
        \/ EndpointRaise(c)
        \/ EndpointAbort(c)
        \/ Cancel(c)
        \/ ExceptionCatch(c)
        \/ HandlerRun(c)

Spec == Init /\ [][Next]_vars

\* ------------------------------------------------------------- properties
Range(f) == {f[i] : i \in DOMAIN f}

Done(c) == pc[c] = "done"

\* The generator objects registered while resolving the dependencies of
\* call c.
Registered(c) ==
    {h \in UNION {Range(dependsCached[i]) : i \in DOMAIN dependsCached} : h.owner = c}

\* How many teardown steps, over all calls, were run on generator object h.
Teardowns(h) ==
    Cardinality({t \in Calls \X (1..Len(methodCached)) :
                    t[2] <= Len(torn[t[1]]) /\ torn[t[1]][t[2]].handle = h})

\* The endpoint body of call c started and ended by returning / by raising.
EndpointReturned(c) == "Method" \in Range(stages[c]) /\ outcome[c] = "response"

EndpointRaised(c) == "endpoint" \in Range(raised[c])

\* C1: within one call a dependency producer is invoked at most once however
\* many parameters reference it (two endpoint parameters with a marker for
\* the same producer, or the same producer nested under two endpoint
\* parameters), and the parameters that reference one producer receive the
\* same resolved value.
C1_ProducerInvokedOnce ==
    \A c \in Calls :
        /\ \A p \in Producers :
             Cardinality({n \in 1..Len(invoked[c]) : invoked[c][n].prod = p}) <= 1
        /\ \A i, j \in DOMAIN results[c] :
             Params[i] = Params[j] => results[c][i] = results[c][j]

\* C2: once a call whose endpoint returned or raised has ended, the
\* teardown step of every generator-shaped producer resolved for it has
\* run exactly once.
C2_TeardownAfterEndpoint ==
    \A c \in Calls :
        Done(c) /\ (EndpointReturned(c) \/ EndpointRaised(c))
            => \A h \in Registered(c) : h \in exhausted /\ Teardowns(h) = 1

\* C3: a teardown step is run only by the call that registered the
\* generator, and never while the endpoint of the call that registered it
\* is still running.
C3_TeardownByOwnCallOnly ==
    \A b \in Calls : \A k \in 1..Len(torn[b]) :
        /\ torn[b][k].handle.owner = b
        /\ torn[b][k].ownerAt \notin {"endpoint", "receiving", "drained"}

\* C4: every exception raised during a call (by a dependency producer, the
\* context-binding stage, an interceptor, the method or the endpoint) is
\* caught by the exception-handling stage exactly once, and the call ends
\* aborted, never with a raw exception reaching the transport.
C4_NoRawException ==
    \A c \in Calls :
        Done(c) /\ raised[c] # <<>> /\ raised[c][1] # "cancel"
            => /\ Len(caught[c]) = 1
               /\ outcome[c] = "aborted"

\* C5: a call that ends without its endpoint body having started (request
\* validation failed, a producer raised during resolution, a stage ended
\* the call without delegating) has run the teardown step of every
\* generator registered while resolving its dependencies.
C5_CleanupOnEveryBranch ==
    \A c \in Calls :
        Done(c) /\ endpointRuns[c] = 0
            => \A h \in Registered(c) : h \in exhausted

\* C6: a call cancelled while its endpoint was suspended has run the
\* teardown step of every generator registered for it, exactly once.
C6_CleanupOnCancel ==
    \A c \in Calls :
        outcome[c] = "cancelled"
            => \A h \in Registered(c) : h \in exhausted /\ Teardowns(h) = 1

\* C7: a call of a sequence-producing method that reached the method with a
\* valid request, and whose endpoint is programmed to produce N items
\* without raising, has emitted when it ends exactly the N serialized items
\* in production order (each item is requested only when the one before it
\* has been handed over: StreamNext hands over one item per request).
C7_StreamEmitsEveryItem ==
    \A c \in Calls :
        Done(c) /\ is_response_iterable(Mode) /\ "Method" \in Range(stages[c])
                /\ "validation" \notin Range(raised[c])
                /\ FailureOf[endpoint] = NoExc
            => /\ emitted[c] = [i \in 1..Len(ItemsOf[endpoint]) |->
                                   Message(ItemsOf[endpoint][i])]
               /\ outcome[c] = "stream_end"

\* The handler of the application or the base registered for the exact type
\* of e calls abort.
HasAbortingHandler(e) ==
    /\ e.type \in DOMAIN exception_handlers
    /\ exception_handlers[e.type].kind \in AbortingKinds

\* The record of one invocation handler(request, context, exc) in call c.
Invocation(c, e) ==
    [name |-> exception_handlers[e.type].name, request |-> c, context |-> c,
     exc |-> e]

\* C8 (as stated): when the exception the stage catches has an exact type
\* with a registered handler, that handler is invoked with (request,
\* context, exception) and the call ends with the abort status and message
\* the handler chose.
C8_RegisteredHandlerDecides ==
    \A c \in Calls :
        Done(c) /\ caught[c] # <<>> /\ HasAbortingHandler(caught[c][1])
            => /\ handlerCalls[c] = <<Invocation(c, caught[c][1])>>
               /\ aborts[c] = <<handler_abort(exception_handlers[caught[c][1].type],
                                              caught[c][1])>>

\* C8 (amended): when the exception the stage catches is not a
\* grpc.RpcError and has an exact type with a registered handler, that
\* handler is invoked once with (request, context, exception), and if the
\* handler calls abort the call ends with the status and message the
\* handler chose, as the only abort of the call.
C8_RegisteredHandlerDecidesUnlessRpcError ==
    \A c \in Calls :
        Done(c) /\ caught[c] # <<>> /\ ~IsRpcError(caught[c][1].type)
                /\ caught[c][1].type \in DOMAIN exception_handlers
            => /\ handlerCalls[c] = <<Invocation(c, caught[c][1])>>
               /\ HasAbortingHandler(caught[c][1])
                    => /\ aborts[c] = <<handler_abort(exception_handlers[caught[c][1].type],
                                                      caught[c][1])>>
                       /\ outcome[c] = "aborted"

\* A call whose endpoint raised TestExc has ended with the status and
\* message of the handler registered for TestExc.
C8_Witness ==
    \E c \in Calls :
        /\ Done(c)
        /\ raised[c] = <<"endpoint">>
        /\ caught[c] = <<TestExc>>
        /\ handlerCalls[c] # <<>>
        /\ aborts[c] = <<[code |-> "INVALID_ARGUMENT", details |-> Msg("Some exception")]>>

C10_AbortExactlyOnce ==
    \A c \in Calls :
        Done(c) /\ caught[c] # <<>> => Len(aborts[c]) = 1

\* C11: ControllerContext.abort is idempotent: the transport receives at
\* most one abort per call, and no call of abort on an already aborted
\* context raises.
C11_AbortIdempotent ==
    \A c \in Calls :
        /\ Len(aborts[c]) <= 1
        /\ exc[c] # AbortTwiceError

\* C12: when the handler registered for the caught exception returns
\* without calling abort, the stage issues the generic abort (UNKNOWN, the
\* text of the exception) and the call ends aborted.
C12_FallbackAfterQuietHandler ==
    \A c \in Calls :
        Done(c) /\ caught[c] # <<>>
                /\ caught[c][1].type \in DOMAIN exception_handlers
                /\ exception_handlers[caught[c][1].type].kind = "return"
            => /\ handlerCalls[c] = <<Invocation(c, caught[c][1])>>
               /\ aborts[c] = <<[code |-> "UNKNOWN", details |-> caught[c][1].text]>>
               /\ outcome[c] = "aborted"

\* A call whose endpoint raised QuietExc, whose handler returns without
\* aborting, has ended aborted as UNKNOWN with the text of the exception.
C12_Witness ==
    \E c \in Calls :
        /\ Done(c)
        /\ caught[c] = <<QuietExc>>
        /\ Len(handlerCalls[c]) = 1
        /\ handlerCalls[c][1].name = "quiet_handler"
        /\ aborts[c] = <<[code |-> "UNKNOWN", details |-> Msg("quiet")]>>

\* C13: handler lookup is by exact type: a caught exception whose type is
\* not registered but whose base type is, is not routed to the handler of
\* the base type; no handler is invoked and the call gets the generic
\* abort (UNKNOWN, the text of the exception).
C13_ExactTypeLookup ==
    \A c \in Calls :
        Done(c) /\ caught[c] # <<>>
                /\ caught[c][1].type \notin DOMAIN exception_handlers
                /\ BaseType(caught[c][1].type) \in DOMAIN exception_handlers
            => /\ handlerCalls[c] = <<>>
               /\ aborts[c] = <<[code |-> "UNKNOWN", details |-> caught[c][1].text]>>

\* A call whose endpoint raised DerivedExc, a subclass of the registered
\* TestExc, has ended with the generic abort and no handler invoked.
C13_Witness ==
    \E c \in Calls :
        /\ Done(c)
        /\ caught[c] = <<DerivedExc>>
        /\ "TestExc" \in DOMAIN exception_handlers
        /\ handlerCalls[c] = <<>>
        /\ aborts[c] = <<[code |-> "UNKNOWN", details |-> Msg("derived")]>>

\* The stages of kind K that call c has entered.
Entered(c, K) == Range(stages[c]) \cap K # {}

\* C14: dependency resolution is the innermost step before the Method: a
\* call has invoked a dependency producer only after it has entered the
\* context-binding stage, the exception-handling stage and the user
\* interceptors.
C14_ResolutionInnermost ==
    \A c \in Calls :
        invoked[c] # <<>>
            => /\ Entered(c, ContextMiddlewares)
               /\ Entered(c, ExceptionMiddlewares)
               /\ Entered(c, UserMiddlewares)

\* The place of a stage in the order the chain is to be entered in.
Rank(stage) ==
    CASE stage \in ContextMiddlewares   -> 1
      [] stage \in ExceptionMiddlewares -> 2
      [] stage \in SchedulerMiddlewares -> 3
      [] stage \in UserMiddlewares      -> 4
      [] OTHER                          -> 5

\* C15: in both chain flavours every call enters the stages in the order
\* context-binding, exception-handling, scheduler attachment (entered
\* exactly when a scheduler is configured), user interceptors, Method, each
\* at most once and none skipped.
C15_FixedStageOrder ==
    \A c \in Calls :
        LET rank == [i \in DOMAIN stages[c] |-> Rank(stages[c][i])]
        IN /\ \A i, j \in DOMAIN rank : i < j => rank[i] < rank[j]
           /\ \A i \in DOMAIN rank :
                /\ rank[i] \in {2, 5} => i > 1 /\ rank[i - 1] # 5
                /\ rank[i] >= 2 => rank[1] = 1
                /\ rank[i] >= 3 => rank[2] = 2
                /\ rank[i] >= 4 =>
                     (rank[3] = 3 <=>
                        \E k \in DOMAIN Chain : Chain[k] \in SchedulerMiddlewares)
                /\ rank[i] = 5 => rank[i - 1] = 4

\* A call of the single-result chain with a scheduler configured has
\* entered all four stages and the Method, in that order.
C15_Witness ==
    \E c \in Calls :
        stages[c] = <<"NotIterableContextMiddleware",
                      "NotIterableExceptionMiddleware",
                      "NotIterableSchedulerMiddleware",
                      "CustomMiddleware", "Method">>

\* C16: in both chain flavours a call dispatched through a chain that was
\* given no method descriptor never reaches the Method and does not end as
\* a success: neither with a response nor with a normal end of stream.
C16_NoDescriptorFailsFast ==
    \A c \in Calls :
        Done(c) /\ ~method_descriptor
            => /\ "Method" \notin Range(stages[c])
               /\ outcome[c] \notin {"response", "stream_end"}

\* C17: every call that has ended (and was not cancelled by the transport)
\* has ended in exactly one of two ways: completed, with a response or a
\* normal end of stream and no abort issued, or aborted, with the
\* transport's abort issued and no response or normal end of stream.
C17_CompletedXorAborted ==
    \A c \in Calls :
        Done(c) /\ outcome[c] # "cancelled"
            => \/ outcome[c] \in {"response", "stream_end"} /\ aborts[c] = <<>>
               \/ outcome[c] = "aborted" /\ aborts[c] # <<>>

\* C18: when the endpoint of a sequence-producing method is programmed to
\* raise after having produced k items, a call that reached the Method with
\* a valid request has emitted, when it ends, exactly those k items
\* serialized and in production order, and was aborted by the
\* exception-handling stage, which caught the endpoint's exception.
C18_StreamStopsAtFailure ==
    \A c \in Calls :
        Done(c) /\ is_response_iterable(Mode) /\ "Method" \in Range(stages[c])
                /\ "validation" \notin Range(raised[c])
                /\ FailureOf[endpoint] # NoExc
            => /\ emitted[c] = [i \in 1..Len(ItemsOf[endpoint]) |->
                                   Message(ItemsOf[endpoint][i])]
               /\ caught[c] = <<FailureOf[endpoint]>>
               /\ outcome[c] = "aborted"

\* C19: validation of a request stream is lazy and keeps the order: the
\* raw items are pulled from the transport in the order sent and only when
\* the endpoint has asked for an item, the k-th item handed to the endpoint
\* is the request model built from the k-th raw item, and the validation
\* layer has never pulled more than one raw item beyond those handed over.
C19_LazyOrderedValidation ==
    \A c \in Calls :
        /\ Len(pulledRaw[c]) <= asked[c]
        /\ Len(received[c]) <= Len(pulledRaw[c])
        /\ Len(pulledRaw[c]) <= Len(received[c]) + 1
        /\ \A k \in 1..Len(pulledRaw[c]) : pulledRaw[c][k] = request_stream[k]
        /\ \A k \in 1..Len(received[c]) :
             /\ request_stream[k][1] = "name"
             /\ received[c][k] = [name |-> request_stream[k][2]]

\* A call whose client sent the items b, a has handed the endpoint the
\* request models of b and a, in that order, on its second request.
C19_Witness ==
    \E c \in Calls :
        /\ request_stream = <<<<"name", "b">>, <<"name", "a">>>>
        /\ asked[c] = 2
        /\ received[c] = <<[name |-> "b"], [name |-> "a"]>>

C21_StreamUnaryFoldsWholeStream ==
    \A c \in Calls :
        Done(c) /\ Mode = "stream_unary" /\ "Method" \in Range(stages[c])
                /\ raised[c] = <<>>
          => LET sent == [k \in 1..Len(request_stream) |->
                            [name |-> request_stream[k][2]]]
             IN /\ received[c] = sent
                /\ outcome[c] = "response"
                /\ emitted[c] = <<[wire |-> "SayHello:" \o JoinNames(sent)]>>

\* A call whose client sent b then a has returned the single response
\* "SayHello: b a".
C21_Witness ==
    \E c \in Calls :
        /\ Done(c)
        /\ endpoint = "stream_unary"
        /\ request_stream = <<<<"name", "b">>, <<"name", "a">>>>
        /\ received[c] = <<[name |-> "b"], [name |-> "a"]>>
        /\ emitted[c] = <<[wire |-> "SayHello: b a"]>>

\* The statuses that tell the client its request was at fault.
ClientErrorStatuses ==
    {"INVALID_ARGUMENT", "FAILED_PRECONDITION", "OUT_OF_RANGE"}

\* C24: a call in which the exception-handling stage caught a schema
\* validation failure (of the request, of an item of the request stream or
\* of the endpoint's result) was aborted with a client-error status, not
\* UNKNOWN, and a message that carries the field path, the offending input
\* and the validation message of the failure.
C24_ValidationAbortsClientError ==
    \A c \in Calls :
        \A k \in 1..Len(caught[c]) :
            Done(c) /\ caught[c][k].type = "ValidationError"
              => /\ aborts[c] # <<>>
                 /\ aborts[c][1].code \in ClientErrorStatuses
                 /\ aborts[c][1].code # "UNKNOWN"
                 /\ Range(caught[c][k].details) \subseteq Range(aborts[c][1].details)

\* C25: once a call whose endpoint returned normally has ended, no
\* generator object registered during it is still held in the method's list
\* of cleanup handles or in a marker's list, and no other call has run the
\* teardown step of a generator object it registered.
C25_HandlesLiveOneCall ==
    \A c \in Calls :
        Done(c) /\ EndpointReturned(c) /\ raised[c] = <<>> =>
            /\ \A i \in 1..Len(methodCached) : methodCached[i].owner # c
            /\ Registered(c) = {}
            /\ \A b \in Calls : \A k \in 1..Len(torn[b]) :
                   torn[b][k].handle.owner = c => b = c

\* The teardown steps that call b ran on generator objects registered by
\* call c, as positions of b's teardown log.
TornOf(b, c) == {k \in 1..Len(torn[b]) : torn[b][k].handle.owner = c}

\* C26: on a call whose endpoint returned normally, the teardown steps of
\* the generator objects registered during the call were run in the order
\* in which the objects were registered, each of them was run, and none was
\* run (by any call) before the endpoint of the call had returned.
C26_TeardownInRegistrationOrder ==
    \A c \in Calls :
        Done(c) /\ EndpointReturned(c) /\ raised[c] = <<>> =>
            /\ \A j, k \in TornOf(c, c) :
                   j < k => torn[c][j].handle.inv < torn[c][k].handle.inv
            /\ \A b \in Calls : \A k \in TornOf(b, c) :
                   torn[b][k].ownerAt = "returned"
            /\ \A h \in Registered(c) :
                   \E k \in TornOf(c, c) : torn[c][k].handle = h

\* C27: the metadata of a call is pulled from the transport at most once,
\* whatever it holds, and every read of context.metadata after the first
\* returns what the first returned.
C27_MetadataPulledOnce ==
    \A c \in Calls :
        /\ pulls[c] <= 1
        /\ \A k \in 1..Len(metadata_reads[c]) :
               metadata_reads[c][k] = metadata_reads[c][1]

\* C28: what serialize_response gives for a raw result follows the three
\* cases in priority order: a result of the wire output type comes back
\* unchanged; any other result of a method with a response model comes
\* back as the wire message of its validated content, or validation raises;
\* a dict of a method without a response model comes back as a wire
\* message; so whatever a method with a response model returns is of the
\* wire output type.
C28_SerializePolicy ==
    \A c \in Calls :
        responses[c] # <<>> =>
            LET result == raw_results[c][1]
                schema == declared_models[c][1]
                out    == responses[c][1]
            IN /\ "wire" \in DOMAIN result => out = result
               /\ "wire" \notin DOMAIN result /\ schema # None =>
                     IF result.kind \in {"model", "dict"} /\ result.field = "message"
                     THEN out = [wire |-> result.value]
                     ELSE "error" \in DOMAIN out
               /\ "wire" \notin DOMAIN result /\ schema = None
                                               /\ result.kind = "dict" =>
                     "wire" \in DOMAIN out
               /\ schema # None /\ "error" \notin DOMAIN out =>
                     "wire" \in DOMAIN out

\* A dict that sets a field the response model does not have was handed to
\* a method with a response model, and validation raised.
C28_Witness ==
    \E c \in Calls :
        /\ responses[c] # <<>>
        /\ raw_results[c] = <<[kind |-> "dict", field |-> "text", value |-> "hi"]>>
        /\ declared_models[c] = <<"TestResponse">>
        /\ "error" \in DOMAIN responses[c][1]

\* ------------------------------------------------ configuration properties
\* Whether a middleware is of the flavour the bound method is wrapped with.
OfServedFlavour(m) == is_BaseIterableMiddleware(m) <=> is_response_iterable(Mode)

\* The built-in stages of the served controller's chain, as constructed.
BuiltInStages ==
    IF is_response_iterable(Mode)
    THEN Controller_iterable_middlewares(controllers[served].scheduler)
    ELSE Controller_middlewares(controllers[served].scheduler)

StartsWith(list, prefix) ==
    /\ Len(prefix) <= Len(list)
    /\ SubSeq(list, 1, Len(prefix)) = prefix

\* C22: after any sequence of add_middleware calls made before binding, the
\* chain of the bound method is the built-in stages in their constructed
\* order followed by the user interceptors of the chain's flavour in the
\* order they were registered in, and a call enters the stages in that
\* order, outermost first, the Method last.
C22_RegistrationOrderInsideBuiltIns ==
    served # None =>
        /\ Chain = BuiltInStages \o SelectSeq(registered[served], OfServedFlavour)
        /\ StartsWith(Chain \o <<"Method">>, stages[1])

\* A call of a controller given CustomMiddleware by its class and
\* AuthMiddleware by a later add_middleware call has run both, in that
\* order, inside the built-in stages, and reached the Method.
C22_Witness ==
    /\ served = "declared"
    /\ registered["declared"] =
         <<"CustomMiddleware", "CustomIterableMiddleware", "AuthMiddleware">>
    /\ stages[1] = BuiltInStages \o <<"CustomMiddleware", "AuthMiddleware", "Method">>

\* C23: the chain of the bound method is exactly the served controller's
\* list of the flavour chosen by whether the method produces a sequence, as
\* the list was at binding (its built-in stages and what was registered
\* before binding; the list may have been extended since), that list holds
\* interceptors of that flavour only, and a call never enters an
\* interceptor of the other flavour.
C23_ChainSelectedByResponseFlavour ==
    served # None =>
        /\ StartsWith(IF Mode \in {"unary_stream", "stream_stream"}
                      THEN controllers[served].iterable_middlewares
                      ELSE controllers[served].middlewares, Chain)
        /\ Len(Chain) = Len(BuiltInStages)
                           + Len(SelectSeq(registered[served], OfServedFlavour))
        /\ \A i \in DOMAIN Chain :
             Chain[i] \in IterableMiddlewares
                <=> Mode \in {"unary_stream", "stream_stream"}
        /\ \A i \in DOMAIN stages[1] :
             stages[1][i] # "Method" =>
                (stages[1][i] \in IterableMiddlewares
                    <=> Mode \in {"unary_stream", "stream_stream"})

\* A stream_unary call of a controller that was given interceptors of both
\* flavours in one add_middleware call has run the single-result one and
\* reached the Method.
C23_Witness ==
    /\ served # None
    /\ endpoint = "stream_unary"
    /\ "CustomIterableMiddleware" \in Range(registered[served])
    /\ "CustomMiddleware" \in Range(stages[1])
    /\ "Method" \in Range(stages[1])

\* C29: once the controller of a ControllerMeta class was added to an
\* application with add_service and bound by the application, a call that
\* reaches the Method has run every interceptor of the chain's flavour the
\* class declared, and the handlers in force map every declared kind to
\* its declared handler.
C29_DeclaredConfigurationServed ==
    served = "added" =>
        /\ "Method" \in Range(stages[1]) =>
             \A i \in DOMAIN declared.middlewares :
                OfServedFlavour(declared.middlewares[i])
                    => declared.middlewares[i] \in Range(stages[1])
        /\ \A kind \in DOMAIN declared.exceptions :
             /\ kind \in DOMAIN exception_handlers
             /\ exception_handlers[kind] = declared.exceptions[kind]

\* C30: every controller the application holds maps each kind that was
\* passed to FastGRPC.add_exception_handler to the handler passed with it.
C30_AppHandlersOnEveryService ==
    \A id \in _services :
        \A i \in DOMAIN app_exceptions :
            \A kind \in DOMAIN app_exceptions[i] :
                /\ kind \in DOMAIN controllers[id].exception_handlers
                /\ controllers[id].exception_handlers[kind] = app_exceptions[i][kind]

\* ------------------------------------------------- resolution properties
\* The invocations of call c's log made while resolving the endpoint
\* parameter whose own producer is invocation n: those after the previous
\* endpoint parameter's own producer, up to n.
TopLevel(c, n) == invoked[c][n].prod \in Range(Params)

\* Invocations i <= j of call c belong to the resolution of one endpoint
\* parameter: no top-level producer was invoked from i up to j - 1.
SameResolution(c, i, j) ==
    \A k \in i..(j - 1) : ~TopLevel(c, k)

\* C31: within the resolution of one endpoint parameter no producer is
\* invoked twice, and all the producers that reference one nested producer
\* are passed the same value, the one its single invocation resolved to.
C31_CachedProducerNotReinvoked ==
    \A c \in Calls :
        \A j \in DOMAIN invoked[c] :
            \A i \in 1..j :
                SameResolution(c, i, j) =>
                    LET a == invoked[c][i]
                        b == invoked[c][j]
                    IN /\ i # j => a.prod # b.prod
                       /\ \A m \in DOMAIN a.args, n \in DOMAIN b.args :
                            NestedDeps[a.prod][m] = NestedDeps[b.prod][n]
                                => a.args[m] = b.args[n]

\* A call of layered: g reaches async_gen directly and through k, and both
\* g and k were passed the value of one invocation of async_gen.
C31_Witness ==
    \E c \in Calls :
        \E i, j \in DOMAIN invoked[c] :
            /\ invoked[c][i].prod = "k" /\ invoked[c][j].prod = "g"
            /\ i < j /\ SameResolution(c, i, j)
            /\ invoked[c][i].args = <<Value("async_gen", i - 1)>>
            /\ invoked[c][j].args = <<Value("async_gen", i - 1), Value("k", i)>>

\* C32: every producer invocation was passed one value per nested producer
\* it declares, in declaration order, each the value of an invocation of
\* that nested producer made earlier in the same call.
C32_DepthFirstResolution ==
    \A c \in Calls :
        \A n \in DOMAIN invoked[c] :
            LET e == invoked[c][n]
            IN /\ Len(e.args) = Len(NestedDeps[e.prod])
               /\ \A m \in DOMAIN e.args :
                    /\ e.args[m].prod = NestedDeps[e.prod][m]
                    /\ e.args[m].inv < n
                    /\ invoked[c][e.args[m].inv].prod = e.args[m].prod

\* A call of layered has invoked g after async_gen and k, with their values.
C32_Witness ==
    \E c \in Calls :
        \E n \in DOMAIN invoked[c] :
            /\ invoked[c][n].prod = "g"
            /\ n >= 3
            /\ invoked[c][n - 1].prod = "k"
            /\ invoked[c][n].args[2] = Value("k", n - 1)

\* Whether producer q is reached from producer p through Depends markers.
RECURSIVE Reaches(_, _, _)

Reaches(p, q, n) ==
    \/ q \in Range(graph[p])
    \/ n > 1 /\ \E r \in Range(graph[p]) : Reaches(r, q, n - 1)

Cyclic == \E p \in DeclaredProducers :
             /\ p = "a" \/ Reaches("a", p, Cardinality(DeclaredProducers))
             /\ Reaches(p, p, Cardinality(DeclaredProducers))

\* C33: the resolution of a dependency graph never starts resolving a
\* producer whose own resolution is still in progress (so its nesting is
\* bounded by the number of producers declared), and a cyclic declaration
\* ends it with an error.
C33_CyclicDeclarationRejected ==
    /\ \A i, j \in DOMAIN frames :
          i # j => frames[i].func # frames[j].func
    /\ resolution = "value" => ~Cyclic

\* C34: a call in which the exception-handling stage caught a transport
\* error (grpc.RpcError or a subclass) has invoked no exception handler,
\* whether or not one is registered for the error's type, and has ended
\* aborted by a single abort with status UNKNOWN and the text of the error.
C34_RpcErrorBypassesRegistry ==
    \A c \in Calls :
        Done(c) /\ caught[c] # <<>> /\ caught[c][1].type \in RpcErrorTypes
            => /\ handlerCalls[c] = <<>>
               /\ aborts[c] = <<[code |-> "UNKNOWN", details |-> caught[c][1].text]>>
               /\ outcome[c] = "aborted"

\* A call whose endpoint raised an AioRpcError while a handler was
\* registered for AioRpcError has ended aborted as UNKNOWN.
C34_Witness ==
    \E c \in Calls :
        /\ Done(c)
        /\ caught[c] = <<UpstreamError>>
        /\ "AioRpcError" \in DOMAIN exception_handlers
        /\ exception_handlers["AioRpcError"].kind = "abort"
        /\ aborts[c] = <<[code |-> "UNKNOWN", details |-> Msg("upstream unavailable")]>>

\* C35: the endpoint never receives an unvalidated request. A call whose
\* single request failed validation has not started its endpoint body and
\* ends aborted; every item the endpoint of a streaming request has
\* obtained is the request model built from a raw item that fits the
\* model, the items in the order sent, and nothing is obtained after an
\* item that does not fit.
C35_NoUnvalidatedRequest ==
    \A c \in Calls :
        /\ ~(Mode \in {"stream_unary", "stream_stream"})
              /\ "validation" \in Range(raised[c])
              => /\ endpointRuns[c] = 0
                 /\ Done(c) => outcome[c] = "aborted" /\ aborts[c] # <<>>
        /\ Mode \in {"stream_unary", "stream_stream"}
              => /\ Len(received[c]) <= Len(pulledRaw[c])
                 /\ \A k \in DOMAIN received[c] :
                      /\ pulledRaw[c][k][1] = "name"
                      /\ received[c][k] = [name |-> pulledRaw[c][k][2]]
                 /\ \A k \in DOMAIN pulledRaw[c] :
                      pulledRaw[c][k] # EndOfStream /\ pulledRaw[c][k][1] # "name"
                          => Len(received[c]) < k /\ Len(pulledRaw[c]) = k

\* A stream_unary call whose second item does not fit the request model
\* has handed the endpoint the first item only and has ended.
C35_Witness ==
    \E c \in Calls :
        /\ Done(c)
        /\ pulledRaw[c] = <<<<"name", "a">>, <<"age", "1">>>>
        /\ received[c] = <<[name |-> "a"]>>
        /\ "validation" \in Range(raised[c])

\* C36: the elapsed_time a call read at its completion is the time since
\* its context was built in whole milliseconds: one of the durations a
\* call can take, which are given in milliseconds.
C36_ElapsedInMilliseconds ==
    \A c \in Calls :
        elapsed[c] # <<>> => elapsed[c][1] \in Durations

\* C37: whatever is registered with add_middleware after the controller
\* was bound, a call of the bound entry point enters only user interceptors
\* that were registered before binding, and a call that reaches the Method
\* has entered exactly the chain built at binding: the built-in stages and
\* the interceptors registered before binding, in order.
C37_ChainFixedAtBinding ==
    served # None =>
        /\ \A i \in DOMAIN stages[1] :
             stages[1][i] \in UserMiddlewares
                => stages[1][i] \in Range(registered[served])
        /\ "Method" \in Range(stages[1]) =>
             stages[1] = BuiltInStages
                         \o SelectSeq(registered[served], OfServedFlavour)
                         \o <<"Method">>

\* A call reached the Method of a controller that was given AuthMiddleware
\* only after it was bound: the controller's list holds AuthMiddleware, the
\* call has not entered it.
C37_Witness ==
    /\ served # None
    /\ "AuthMiddleware" \in Range(controllers[served].middlewares)
    /\ "AuthMiddleware" \notin Range(registered[served])
    /\ endpoint = "say_hello"
    /\ "Method" \in Range(stages[1])

\* C38: after any sequence of add_method calls the controller holds one
\* method per name that was registered and no other, the method held under
\* a name is the one the last call for that name created, and every call
\* returned the method it created.
C38_MethodNamesUnique ==
    /\ \A i, j \in methods : i.key = j.key => i = j
    /\ {i.key : i \in methods}
         = {add_method_calls[n].returned.name : n \in DOMAIN add_method_calls}
    /\ \A i \in methods :
         \E n \in DOMAIN add_method_calls :
            /\ i.value = add_method_calls[n].returned
            /\ i.value.object = n
            /\ \A m \in DOMAIN add_method_calls :
                 add_method_calls[m].returned.name = i.key => m <= n

\* say_hello was registered, then another endpoint under the name
\* SayHello: the controller holds the second method under SayHello.
C38_Witness ==
    /\ Len(add_method_calls) >= 2
    /\ add_method_calls[1].endpoint = "say_hello"
    /\ add_method_calls[1].name = None
    /\ add_method_calls[2].endpoint = "unary_stream"
    /\ add_method_calls[2].name = "SayHello"
    /\ [key |-> "SayHello", value |-> add_method_calls[2].returned] \in methods

\* C39: a teardown step that raises an error other than an exhaustion
\* signal is the last teardown step its call runs; the call has raised the
\* error in place of handing out the endpoint's result, and the
\* exception-handling stage ends it with the error.
C39_TeardownErrorEndsCleanup ==
    \A c \in Calls :
        \A k \in DOMAIN torn[c] :
            torn[c][k].handle.prod = "rollback_gen"
                => /\ k = Len(torn[c])
                   /\ "teardown" \in Range(raised[c])
                   /\ emitted[c] = <<>>
                   /\ Done(c) => /\ caught[c] = <<TeardownError>>
                                 /\ outcome[c] = "aborted"

\* A call of guarded has ended: the teardown step of its rollback_gen
\* generator raised, the generator of sync_gen registered after it was
\* left unfinished, and no response was handed out.
C39_Witness ==
    \E c \in Calls :
        /\ Done(c)
        /\ endpoint = "guarded"
        /\ torn[c] # <<>>
        /\ torn[c][Len(torn[c])].handle.prod = "rollback_gen"
        /\ torn[c][Len(torn[c])].handle.owner = c
        /\ \E h \in Registered(c) : h.prod = "sync_gen" /\ h \notin exhausted
        /\ outcome[c] = "aborted"

====
